---- MODULE Spec2Model ----
(***************************************************************************)
(* Vanilla RNN from scratch (src/Q1.ipynb): forward, backward (BPTT),      *)
(* train_step and the training loop of the notebook's main cell.           *)
(*                                                                         *)
(* Numbers.  NumPy float64 values are modelled in fixed point: the integer *)
(* n stands for the real n / Scale.  Sums and differences are exact;       *)
(* products, quotients, exp, tanh and log are rounded to the nearest       *)
(* 1 / Scale.  Every array is 2-D as in the notebook: an array of shape    *)
(* (r, k) is a sequence of r rows of k numbers, a column vector has k = 1. *)
(*                                                                         *)
(* Where a value is used several times it is bound by a quantifier or a    *)
(* CHOOSE over a one-element set, which evaluates it once.                 *)
(*                                                                         *)
(* Objects.  NumPy arrays are mutable objects reached through names, so    *)
(* the arrays live in `heap`, keyed by object, and a local name of         *)
(* backward is bound to an object in `acc`.  An in-place `+=` writes the   *)
(* heap at the object the name is bound to.                                *)
(***************************************************************************)
EXTENDS Integers, Sequences, FiniteSets, TLC

\* ------------------------------------------------------------ bounds
\* The notebook uses input_size = 5, hidden_size = 10, output_size = 3 and
\* num_epochs = 100; the model keeps the names and scales the sizes down.
input_size == 2
hidden_size == 2
output_size == 2
num_epochs == 2
\* Longest input sequence (and longest target list) the caller passes.
MaxT == 2

\* ------------------------------------------------------------ fixed point
Scale == 10^4

Abs(x) == IF x < 0 THEN -x ELSE x

\* n / d rounded to the nearest integer (d > 0), halves away from zero.
RDiv(n, d) == IF n >= 0 THEN (n + d \div 2) \div d
              ELSE -(((-n) + d \div 2) \div d)

\* Product of two fixed-point numbers a >= b >= 0, rounded to the nearest:
\* the larger factor is split at the point so that no intermediate product
\* leaves the integer range.
MulSplit(a, b) == (a \div Scale) * b + ((a % Scale) * b + Scale \div 2) \div Scale

\* The product of two fixed-point values, whichever is the larger.
MulAbs(a, b) == IF a >= b THEN MulSplit(a, b) ELSE MulSplit(b, a)

\* x * y / Scale rounded to the nearest integer, halves away from zero.
MulSigned(v, w) ==
  IF (v < 0) = (w < 0) THEN MulAbs(Abs(v), Abs(w)) ELSE -MulAbs(Abs(v), Abs(w))

\* Product of two fixed-point numbers (each factor is evaluated once).
Mul(x, y) == CHOOSE r \in {MulSigned(v, w) : v \in {x}, w \in {y}} : TRUE

\* e^(-1) and e in fixed point.
EInv == RDiv(3679 * Scale, 10^4)
EUp == RDiv(27183 * Scale, 10^4)

RECURSIVE ExpTaylor(_, _, _, _)
\* sum_{k >= n} (-f)^k / k!, given term = (-f)^(n-1) / (n-1)!, for 0 <= f < 1.
ExpTaylor(f, term, n, last) ==
  IF n > last THEN 0
  ELSE CHOOSE r \in {next + ExpTaylor(f, next, n + 1, last) :
                       next \in {RDiv(Mul(term, -f), n)}} : TRUE

RECURSIVE EInvPow(_)
EInvPow(n) == IF n = 0 THEN Scale
              ELSE IF n > 10 THEN 0
              ELSE Mul(EInv, EInvPow(n - 1))

\* np.exp(-y) for y >= 0 (softmax and tanh only exponentiate numbers <= 0).
ExpNeg(y) ==
  CHOOSE r \in {Mul(EInvPow(v \div Scale), Scale + ExpTaylor(v % Scale, Scale, 1, 9)) :
                  v \in {y}} : TRUE

\* np.tanh(x) = sign(x) * (1 - e^(-2|x|)) / (1 + e^(-2|x|)).
Tanh(x) ==
  CHOOSE r \in {IF v < 0 THEN -RDiv((Scale - e) * Scale, Scale + e)
                 ELSE RDiv((Scale - e) * Scale, Scale + e) :
                  v \in {x}, e \in {ExpNeg(2 * Abs(x))}} : TRUE

RECURSIVE AtanhSeries(_, _, _, _)
\* sum over odd k >= n of z^k / k, given zk = z^n.
AtanhSeries(z, zk, n, last) ==
  IF n > last THEN 0
  ELSE RDiv(zk, n) + AtanhSeries(z, Mul(Mul(zk, z), z), n + 2, last)

RECURSIVE LnPos(_)
\* natural logarithm of p > 0: scale p into [1/e, e] and sum the atanh series.
LnPos(p) ==
  IF p < EInv THEN LnPos(Mul(p, EUp)) - Scale
  ELSE IF p > EUp THEN LnPos(Mul(p, EInv)) + Scale
  ELSE LET z == RDiv((p - Scale) * Scale, p + Scale)
       IN  2 * AtanhSeries(z, z, 1, 13)

\* ln(1e-8) in fixed point: the value of np.log(p + 1e-8) at p = 0.
LnEps == RDiv(-184207 * Scale, 10^4)

\* np.log(p + 1e-8): 1e-8 is below the resolution, so it only matters at p = 0.
LogEps(p) == IF p <= 0 THEN LnEps ELSE LnPos(p)

\* ------------------------------------------------------------ arrays
RECURSIVE SeqSum(_)
SeqSum(s) ==
  CHOOSE r \in {IF v = <<>> THEN 0 ELSE Head(v) + SeqSum(Tail(v)) : v \in {s}} : TRUE

Rows(A) == Len(A)
Cols(A) == Len(A[1])

\* np.zeros((r, k))
ZerosMat(r, k) == [i \in 1..r |-> [j \in 1..k |-> 0]]

\* The value of np.zeros_like(x): a new array of zeros with the shape of x.
ZerosLike(x) == ZerosMat(Rows(x), Cols(x))

\* np.dot(A, B) for 2-D arrays.
MatMul(A, B) ==
  CHOOSE r \in
    {[i \in 1..Rows(a) |->
        [j \in 1..Cols(y) |->
           SeqSum([n \in 1..Cols(a) |-> Mul(a[i][n], y[n][j])])]] :
       a \in {A}, y \in {B}} : TRUE

\* A.T
Transpose(A) == [j \in 1..Cols(A) |-> [i \in 1..Rows(A) |-> A[i][j]]]

\* A + B, A - B, A * B (elementwise), s * A, on arrays of one shape.
MAdd(A, B) == [i \in 1..Rows(A) |-> [j \in 1..Cols(A) |-> A[i][j] + B[i][j]]]
MSub(A, B) == [i \in 1..Rows(A) |-> [j \in 1..Cols(A) |-> A[i][j] - B[i][j]]]
MHad(A, B) == [i \in 1..Rows(A) |-> [j \in 1..Cols(A) |-> Mul(A[i][j], B[i][j])]]
MScale(s, A) == [i \in 1..Rows(A) |-> [j \in 1..Cols(A) |-> Mul(s, A[i][j])]]

\* np.tanh(A)
MTanh(A) == [i \in 1..Rows(A) |-> [j \in 1..Cols(A) |-> Tanh(A[i][j])]]

\* 1 - A ** 2
OneMinusSq(A) ==
  [i \in 1..Rows(A) |-> [j \in 1..Cols(A) |-> Scale - Mul(A[i][j], A[i][j])]]

RECURSIVE SeqMax(_)
SeqMax(s) ==
  CHOOSE r \in UNION {IF Len(v) = 1 THEN {Head(v)}
                      ELSE {IF Head(v) > m THEN Head(v) ELSE m : m \in {SeqMax(Tail(v))}} :
                      v \in {s}} : TRUE

\* softmax(x) of a column vector x: exp(x - max(x)) / sum(exp(x - max(x))).
softmax(x) ==
  CHOOSE r \in UNION
    {{[i \in 1..Len(exp_x) |-> <<RDiv(exp_x[i] * Scale, total)>>] :
        total \in {SeqSum(exp_x)}} :
     exp_x \in UNION {{[i \in 1..Len(col) |-> ExpNeg(mx - col[i])] : mx \in {SeqMax(col)}} :
                       col \in {[i \in 1..Rows(x) |-> x[i][1]]}}} : TRUE

\* Python and NumPy indexing of a length-n axis by the integer i: the 1-based
\* position, with -n..-1 counted from the end; 0 stands for IndexError.
PyIndex(n, i) == IF 0 <= i /\ i < n THEN i + 1
                 ELSE IF -n <= i /\ i < 0 THEN i + n + 1
                 ELSE 0

\* target = np.zeros_like(y); target[i] = 1, for a valid position pos.
OneHot(y, pos) ==
  [i \in 1..Rows(y) |-> [j \in 1..Cols(y) |-> IF i = pos THEN Scale ELSE 0]]

\* ------------------------------------------------------------ inputs
\* Seeds of the pseudo-random draws np.random.randn makes in the notebook.
ParamSeeds == {1, 2}
InputSeeds == {1, 2}

\* One weight entry of tensor number k (np.random.randn(...) scaled): a
\* multiple of 0.2 in [-0.6, 0.6] fixed by the seed and the position.
WeightEntry(seed, k, i, j) ==
  (((seed * 4 + k * 3 + i * i * 3 + j * j * 2 + i * j * 5 + j) % 7) - 3) * (Scale \div 5)

\* U, W, V drawn at random, b and c zero (notebook cells 3 and 4).
InitParams(seed) ==
  [U |-> [i \in 1..hidden_size |-> [j \in 1..input_size |-> WeightEntry(seed, 1, i, j)]],
   W |-> [i \in 1..hidden_size |-> [j \in 1..hidden_size |-> WeightEntry(seed, 2, i, j)]],
   V |-> [i \in 1..output_size |-> [j \in 1..hidden_size |-> WeightEntry(seed, 3, i, j)]],
   b |-> ZerosMat(hidden_size, 1),
   c |-> ZerosMat(output_size, 1)]

\* One input vector of shape (input_size, 1): multiples of 0.5 in [-1, 1].
InputVec(seed, t) ==
  [i \in 1..input_size |-> <<(((seed * 2 + t * t + i * 3 + t * i * 2) % 5) - 2) * (Scale \div 2)>>]

\* np.random.randn(T, input_size, 1) turned into a list of T vectors.
Inputs(T, seed) == [t \in 1..T |-> InputVec(seed, t)]

\* Target indices a caller may pass: the classes 0..output_size-1, the first
\* index past the end, and the two negative indices around the wrap limit.
TargetVals == (0..output_size) \cup {-output_size, -(output_size + 1)}

\* Any (inputs, targets) pair a caller can put into training_data: targets
\* of the length of inputs, one shorter, or one longer.
Pairs ==
  UNION {{[inputs |-> Inputs(T, 1), targets |-> tg] :
            tg \in UNION {[1..L -> TargetVals] : L \in (0..MaxT) \cap ((T - 1)..(T + 1))}} :
         T \in 0..MaxT}

\* Pairs like the notebook's own: T >= 1 and one class index per step.
GoodPairs ==
  {[inputs |-> Inputs(T, s), targets |-> [t \in 1..T |-> (s + t) % output_size]] :
     T \in 1..MaxT, s \in InputSeeds}

\* A vector of shape (n, 1) drawn like InputVec.
VecOfLen(n, seed, t) ==
  [i \in 1..n |-> <<(((seed * 2 + t * t + i * 3 + t * i * 2) % 5) - 2) * (Scale \div 2)>>]

\* Pairs a caller can pass whose vector at position p is one entry shorter
\* or one entry longer than input_size; the targets are as in GoodPairs.
BadPairs ==
  UNION {{[inputs |-> [t \in 1..T |-> IF t = p THEN VecOfLen(n, 1, t) ELSE InputVec(1, t)],
           targets |-> [t \in 1..T |-> (1 + t) % output_size]] :
            p \in 1..T, n \in {input_size - 1, input_size + 1}} :
         T \in 1..MaxT}

TrainingSets ==
  {<<p>> : p \in Pairs \cup BadPairs}
    \cup {<<p, q>> : p \in GoodPairs, q \in GoodPairs}

\* learning_rate as the caller passes it: the notebook's 0.01, and 0 (an
\* update that changes nothing).
LearningRates == {0, Scale \div 100}

\* ------------------------------------------------------------ state
VARIABLES
  heap,           \* object -> array: the five parameter arrays and the arrays
                  \* backward allocates for its accumulators
  acc,            \* backward's local names dU..dc -> the object each is bound to
  training_data,  \* main: the list of (inputs, targets) pairs
  learning_rate,  \* main: the step size passed to train_step
  epoch, k,       \* main: the two loop positions (k is 1-based)
  total_loss, avg_loss,
  pc, err,        \* position of the program; the exception that ended it
  caller,         \* who called forward: "train_step" or "main"
  inputs, targets,        \* arguments of the running call
  hidden_states, outputs, \* forward's locals, then its result
  t,              \* loop variable of forward and of backward (0-based)
  dh_next,        \* backward: gradient flowing in from the next time step
  ret,            \* what train_step returned
  entry,          \* history: the parameters as the running call received them
  fwd_order, bwd_order,   \* history: the t of every loop iteration, in order
  steps,          \* history: dy, dh, dtanh and the carrier of every iteration
  calls, memo,    \* history: backward calls so far; their arguments and results
  trail           \* history: the forward, backward and update of every
                  \* train_step call, with the epoch, the pair and the parameters

mainVars == <<training_data, learning_rate, epoch, k, total_loss, avg_loss>>
callVars == <<caller, inputs, targets, entry>>
fwdVars == <<hidden_states, outputs, fwd_order>>
bwdVars == <<acc, dh_next, bwd_order, steps>>
histVars == <<calls, memo, trail>>
rnnVars == <<heap, pc, err, t, ret, mainVars, callVars, fwdVars, bwdVars, histVars>>

\* State of the character model (src/Q3.ipynb): the model, the text and the
\* batches cut from it.
VARIABLES
  model,          \* the CharRNN's parameters (embedding, LSTM layers, fc)
  data,           \* the text as a list of character indices
  seq_length, batch_size, \* hyperparameters passed to get_batches
  x_batches, y_batches,   \* what get_batches returned
  bat_pc, bat_err \* position of a lone get_batches call; its exception

modelVars == <<model>>
batchVars == <<data, seq_length, batch_size, x_batches, y_batches, bat_pc, bat_err>>

\* State of the character model's text generation (predict).
VARIABLES
  start_char, predict_len, temperature,   \* predict's arguments
  generated_text, \* the list of characters emitted so far (as indices)
  input_eval,     \* the character index fed to the model next
  hidden,         \* the LSTM state (h, c) passed to the model next
  gen_i,          \* iterations of `for _ in range(predict_len)` done so far
  gen_pc, gen_err,        \* position of predict; the exception that ended it
  gen_result,     \* what predict returned
  init_calls,     \* history: calls of model.init_hidden made by predict
  gen_trace       \* history: input, state passed in and returned, logits and
                  \* sampled index of every call of the model

genVars == <<start_char, predict_len, temperature, generated_text, input_eval,
             hidden, gen_i, gen_pc, gen_err, gen_result, init_calls, gen_trace>>

\* State of the character model's training loop.
VARIABLES
  tr_pc,          \* position of the training loop
  tr_epoch, batch_idx, num_batches,       \* the two loops (both 0-based)
  epoch_loss, tr_avg_loss, tr_loss,
  tr_inputs, tr_targets,  \* the batch of this iteration
  tr_hidden,      \* the name hidden: the LSTM state (h, c)
  tr_outputs,     \* the logits the model returned
  tape,           \* what the forward pass saved for loss.backward()
  grads,          \* the .grad of all parameters, None while they have none
  opt,            \* the state of the Adam optimizer
  tr_log,         \* history: the operations of this batch iteration, in order
  tr_hist,        \* history: every forward pass of the loop, with the state
                  \* it was handed and the state it returned
  fresh_grad      \* history: the gradient the last backward pass computed

trainVars == <<tr_pc, tr_epoch, batch_idx, num_batches, epoch_loss, tr_avg_loss,
               tr_loss, tr_inputs, tr_targets, tr_hidden, tr_outputs, tape,
               grads, opt, tr_log, tr_hist, fresh_grad>>

\* The tagging notebook (Q5.ipynb): one call of train or of evaluate.
VARIABLES
  ner_pc,            \* position in train / evaluate
  ner_fn,            \* which of the two functions runs
  split_sentences,   \* train_sentences or test_sentences: lists of word indices
  iterator,          \* the DataLoader: its dataset's sentences, its batch_size
  ner_batch_idx,     \* batch_idx of enumerate(iterator), 0-based
  padded_sentences,  \* the batch the DataLoader yielded
  lengths,           \* the lengths computed for the batch
  packed_embedded,   \* per sentence of the batch, the time steps the LSTM runs on
  ner_hist,          \* history: every model call, with the dataset rows of its batch
  split_labels,      \* train_labels or test_labels: lists of tag indices
  ner_weights,       \* the model's parameters (a seed standing for them)
  padded_labels,     \* the labels of the batch the DataLoader yielded
  predicted_indices, \* the arg max of the predictions, per row and time step
  all_labels, all_predictions,    \* evaluate's two lists of tags
  label_at, prediction_at         \* history: for every entry of the two lists,
                                  \* the dataset row and position it came from

nerVars == <<ner_pc, ner_fn, split_sentences, iterator, ner_batch_idx,
             padded_sentences, lengths, packed_embedded, ner_hist,
             split_labels, ner_weights, padded_labels, predicted_indices,
             all_labels, all_predictions, label_at, prediction_at>>

\* What the model call leaves alone; evaluate's lists and their history.
nerData == <<ner_fn, split_sentences, split_labels, iterator, ner_weights>>
nerLists == <<all_labels, all_predictions, label_at, prediction_at>>

\* Calls of forward (Q1.ipynb) from outside the training loop, between which
\* the notebook's module-level names may be assigned.
VARIABLES
  fw_args,          \* the arguments of the calls: inputs and the five arrays
  fw_hidden_size,   \* the module-level name hidden_size
  fw_calls          \* history: per call, hidden_size at the call and the result

twoCallVars == <<fw_args, fw_hidden_size, fw_calls>>

\* Everything but the Q1 notebook's state; everything but predict's; but
\* the lone get_batches call's; but the tagging notebook's; but the calls'
\* of forward.
otherNotebooks == <<modelVars, batchVars, genVars, trainVars, nerVars, twoCallVars>>
outsideGen == <<rnnVars, batchVars, trainVars, nerVars, twoCallVars>>
outsideBatch == <<rnnVars, modelVars, genVars, trainVars, nerVars, twoCallVars>>
outsideNer == <<rnnVars, modelVars, batchVars, genVars, trainVars, twoCallVars>>
outsideTwoCalls == <<rnnVars, modelVars, batchVars, genVars, trainVars, nerVars>>
vars == <<rnnVars, otherNotebooks>>

\* Python's None (here: a parameter without a .grad).
None == <<>>

\* No model has been built; get_batches has not been called.
ModelIdle == model = <<>>
BatchIdle ==
  /\ data = <<>> /\ seq_length = 0 /\ batch_size = 0
  /\ x_batches = <<>> /\ y_batches = <<>> /\ bat_pc = "idle" /\ bat_err = "none"

\* The training loop is not running.
TrainIdle ==
  /\ tr_pc = "idle" /\ tr_epoch = 0 /\ batch_idx = 0 /\ num_batches = 0
  /\ epoch_loss = 0 /\ tr_avg_loss = 0 /\ tr_loss = 0
  /\ tr_inputs = <<>> /\ tr_targets = <<>> /\ tr_hidden = <<>>
  /\ tr_outputs = <<>> /\ tape = <<>> /\ grads = None /\ opt = <<>>
  /\ tr_log = <<>> /\ tr_hist = <<>> /\ fresh_grad = <<>>

\* Neither train nor evaluate of the tagging notebook has been called.
NerIdle ==
  /\ ner_pc = "idle" /\ ner_fn = "none" /\ split_sentences = <<>>
  /\ iterator = <<>> /\ ner_batch_idx = 0 /\ padded_sentences = <<>>
  /\ lengths = <<>> /\ packed_embedded = <<>> /\ ner_hist = <<>>
  /\ split_labels = <<>> /\ ner_weights = 0 /\ padded_labels = <<>>
  /\ predicted_indices = <<>> /\ all_labels = <<>> /\ all_predictions = <<>>
  /\ label_at = <<>> /\ prediction_at = <<>>

\* forward is not called from outside the training loop.
TwoCallsIdle == fw_args = <<>> /\ fw_hidden_size = 0 /\ fw_calls = <<>>

\* predict has not been called.
GenIdle ==
  /\ start_char = 0 /\ predict_len = 0 /\ temperature = 0
  /\ generated_text = <<>> /\ input_eval = 0 /\ hidden = <<>> /\ gen_i = 0
  /\ gen_pc = "idle" /\ gen_err = "none" /\ gen_result = <<>>
  /\ init_calls = 0 /\ gen_trace = <<>>

ParamNames == {"U", "W", "V", "b", "c"}
GradNames == {"dU", "dW", "dV", "db", "dc"}

\* The five parameter arrays as the names U, W, V, b, c see them.
Params(h) == [n \in ParamNames |-> h[n]]

Init ==
  /\ \E seed \in ParamSeeds :
       heap = [o \in ParamNames \cup GradNames |->
                 IF o \in ParamNames THEN InitParams(seed)[o] ELSE <<>>]
  /\ acc = [g \in GradNames |-> g]
  /\ training_data \in TrainingSets
  /\ learning_rate \in LearningRates
  /\ epoch = 0 /\ k = 1 /\ total_loss = 0 /\ avg_loss = 0
  /\ pc = "epoch" /\ err = "none" /\ caller = "none"
  /\ inputs = <<>> /\ targets = <<>>
  /\ hidden_states = <<>> /\ outputs = <<>> /\ t = 0
  /\ dh_next = <<>>
  /\ ret = [U |-> <<>>, W |-> <<>>, V |-> <<>>, b |-> <<>>, c |-> <<>>, loss |-> 0]
  /\ entry = Params(heap)
  /\ fwd_order = <<>> /\ bwd_order = <<>> /\ steps = <<>>
  /\ calls = 0 /\ memo = {} /\ trail = <<>>
  /\ ModelIdle /\ BatchIdle /\ GenIdle /\ TrainIdle /\ NerIdle /\ TwoCallsIdle

\* The Q1 notebook is not running.
RnnIdle ==
  /\ heap = <<>> /\ acc = <<>> /\ training_data = <<>> /\ learning_rate = 0
  /\ epoch = 0 /\ k = 0 /\ total_loss = 0 /\ avg_loss = 0
  /\ pc = "idle" /\ err = "none" /\ caller = "none"
  /\ inputs = <<>> /\ targets = <<>> /\ hidden_states = <<>> /\ outputs = <<>>
  /\ t = 0 /\ dh_next = <<>> /\ ret = <<>> /\ entry = <<>>
  /\ fwd_order = <<>> /\ bwd_order = <<>> /\ steps = <<>> /\ calls = 0 /\ memo = {}
  /\ trail = <<>>

\* ------------------------------------------------------------ main loop
\* for epoch in range(num_epochs): total_loss = 0
EpochBegin ==
  /\ pc = "epoch" /\ epoch < num_epochs
  /\ total_loss' = 0 /\ k' = 1 /\ pc' = "main"
  /\ UNCHANGED <<heap, err, t, ret, training_data, learning_rate, epoch, avg_loss,
                 callVars, fwdVars, bwdVars, histVars>>
  /\ UNCHANGED otherNotebooks

\* train_step(list(inputs), targets, U, W, V, b, c, learning_rate) is called.
TrainCall ==
  /\ pc = "main" /\ k <= Len(training_data)
  /\ inputs' = training_data[k].inputs
  /\ targets' = training_data[k].targets
  /\ entry' = Params(heap)
  /\ caller' = "train_step"
  /\ pc' = "forward_enter"
  /\ UNCHANGED <<heap, err, t, ret, mainVars, fwdVars, bwdVars, histVars>>
  /\ UNCHANGED otherNotebooks

\* avg_loss = total_loss / len(training_data), end of one epoch.
EpochEnd ==
  /\ pc = "main" /\ k > Len(training_data)
  /\ avg_loss' = RDiv(total_loss, Len(training_data))
  /\ epoch' = epoch + 1
  /\ pc' = "epoch"
  /\ UNCHANGED <<heap, err, t, ret, training_data, learning_rate, k, total_loss,
                 callVars, fwdVars, bwdVars, histVars>>
  /\ UNCHANGED otherNotebooks

\* After the last epoch: outputs, _ = forward(list(test_input), U, W, V, b, c).
TestCall ==
  /\ pc = "epoch" /\ epoch = num_epochs
  /\ \E s \in InputSeeds : inputs' = Inputs(MaxT, s)
  /\ entry' = Params(heap)
  /\ caller' = "main"
  /\ pc' = "forward_enter"
  /\ UNCHANGED <<heap, err, t, ret, mainVars, targets, fwdVars, bwdVars, histVars>>
  /\ UNCHANGED otherNotebooks

\* ------------------------------------------------------------ forward
\* hidden_states[t+1] = np.tanh(np.dot(U, inputs[t]) + np.dot(W, hidden_states[t]) + b)
HiddenStep(x, h_prev, U, W, b) ==
  MTanh(MAdd(MAdd(MatMul(U, x), MatMul(W, h_prev)), b))

\* output = softmax(np.dot(V, hidden_states[t+1]) + c)
OutputStep(h, V, c) == softmax(MAdd(MatMul(V, h), c))

\* for t in range(T): whether the loop runs an iteration at t.
ForwardMoreShort(tt, T) == tt < T - 1
ForwardMore(tt, T) == tt < T

\* forward as a function of its arguments: the loop run from t = 0 to the end.
RECURSIVE ForwardFrom(_, _, _, _, _)
ForwardFrom(xs, P, tt, hs, outs) ==
  IF ~ForwardMore(tt, Len(xs)) THEN [outputs |-> outs, hidden_states |-> hs]
  ELSE CHOOSE r \in
         {ForwardFrom(xs, P, tt + 1, Append(hs, ho[1]), Append(outs, ho[2])) :
            ho \in
              {<<h, OutputStep(h, P.V, P.c)>> :
                 h \in {HiddenStep(xs[tt + 1], hs[tt + 1], P.U, P.W, P.b)}}} : TRUE

ForwardRun(xs, P) == ForwardFrom(xs, P, 0, <<ZerosMat(hidden_size, 1)>>, <<>>)

\* T = len(inputs); hidden_states = np.zeros((T + 1, hidden_size, 1));
\* outputs = []; hidden_states[0] = np.zeros((hidden_size, 1))
ForwardEnter ==
  /\ pc = "forward_enter"
  /\ hidden_states' = [i \in 1..(Len(inputs) + 1) |-> ZerosMat(hidden_size, 1)]
  /\ outputs' = <<>>
  /\ t' = 0
  /\ fwd_order' = <<>>
  /\ trail' = (IF caller = "train_step"
               THEN Append(trail, [op |-> "forward", epoch |-> epoch, k |-> k,
                                   params |-> Params(heap), result |-> <<>>])
               ELSE trail)
  /\ pc' = "forward"
  /\ UNCHANGED <<heap, err, ret, mainVars, callVars, bwdVars, calls, memo>>
  /\ UNCHANGED otherNotebooks

\* np.dot(A, B) of two 2-D arrays needs A's column count to equal B's row
\* count, and raises ValueError (shapes not aligned) otherwise.  The variant
\* accepts a longer B and multiplies by its first rows.
DotAlignedPrefix(A, B) == Cols(A) <= Rows(B)
DotAligned(A, B) == Cols(A) = Rows(B)

\* One iteration of `for t in range(T)`.
ForwardStep ==
  /\ pc = "forward" /\ ForwardMore(t, Len(inputs))
  /\ IF ~DotAligned(heap["U"], inputs[t + 1])
     THEN /\ pc' = "error" /\ err' = "ValueError"
          /\ UNCHANGED <<t, fwdVars>>
     ELSE /\ \E h_new \in {HiddenStep(inputs[t + 1], hidden_states[t + 1],
                                       heap["U"], heap["W"], heap["b"])} :
               /\ hidden_states' = [hidden_states EXCEPT ![t + 2] = h_new]
               /\ outputs' = Append(outputs, OutputStep(h_new, heap["V"], heap["c"]))
          /\ fwd_order' = Append(fwd_order, t)
          /\ t' = t + 1
          /\ UNCHANGED <<pc, err>>
  /\ UNCHANGED <<heap, ret, mainVars, callVars, bwdVars, histVars>>
  /\ UNCHANGED otherNotebooks

\* return outputs, hidden_states
ForwardReturn ==
  /\ pc = "forward" /\ ~ForwardMore(t, Len(inputs))
  /\ pc' = IF caller = "main" THEN "done" ELSE "backward_enter"
  /\ UNCHANGED <<heap, err, t, ret, mainVars, callVars, fwdVars, bwdVars, histVars>>
  /\ UNCHANGED otherNotebooks

\* ------------------------------------------------------------ backward
\* Variants of np.zeros_like: no copy at all (name = like), and an array
\* that is allocated once and keeps its contents from call to call.
NewZerosLikeAlias(h, fresh, like) == [heap |-> h, ref |-> like]
NewZerosLikeStale(h, fresh, like) ==
  [heap |-> IF h[fresh] = <<>> THEN [h EXCEPT ![fresh] = ZerosLike(h[like])] ELSE h,
   ref |-> fresh]

\* name = np.zeros_like(like): a new object `fresh` holding zeros of the
\* shape of `like`, and the object the name is bound to.
NewZerosLike(h, fresh, like) ==
  [heap |-> [h EXCEPT ![fresh] = ZerosLike(h[like])], ref |-> fresh]

\* Variant of `+=`: plain assignment.
AccumulateAssign(h, ref, x) == [h EXCEPT ![ref] = x]

\* name += x: the array the name is bound to is changed in place.
Accumulate(h, ref, x) == [h EXCEPT ![ref] = MAdd(@, x)]

\* The arguments of the running backward call.
BackwardArgs ==
  [inputs |-> inputs, outputs |-> outputs, hidden_states |-> hidden_states,
   targets |-> targets, params |-> Params(heap)]

\* The five gradients backward returns (dU, dW, dV, db, dc).
Grads == [g \in GradNames |-> heap[acc[g]]]

\* T = len(inputs); dU..dc = np.zeros_like(U..c);
\* dh_next = np.zeros_like(hidden_states[0])
BackwardEnter ==
  /\ pc = "backward_enter"
  /\ LET z1 == NewZerosLike(heap, "dU", "U")
         z2 == NewZerosLike(z1.heap, "dW", "W")
         z3 == NewZerosLike(z2.heap, "dV", "V")
         z4 == NewZerosLike(z3.heap, "db", "b")
         z5 == NewZerosLike(z4.heap, "dc", "c")
     IN  /\ heap' = z5.heap
         /\ acc' = [dU |-> z1.ref, dW |-> z2.ref, dV |-> z3.ref,
                    db |-> z4.ref, dc |-> z5.ref]
  /\ dh_next' = ZerosLike(hidden_states[1])
  /\ t' = Len(inputs) - 1
  /\ bwd_order' = <<>>
  /\ steps' = <<>>
  /\ calls' = calls + 1
  /\ trail' = Append(trail, [op |-> "backward", epoch |-> epoch, k |-> k,
                             params |-> Params(heap), result |-> <<>>])
  /\ pc' = "backward"
  /\ UNCHANGED <<err, ret, mainVars, callVars, fwdVars, memo>>
  /\ UNCHANGED otherNotebooks

\* The time step the loop visits after t: `for t in reversed(range(T))`.
NextBackwardT(tt) == tt - 1

\* Variant of the carrier: W used without the transpose.
CarrierNoTranspose(W, dtanh) == MatMul(W, dtanh)

\* dh_next = np.dot(W.T, dtanh)
Carrier(W, dtanh) == MatMul(Transpose(W), dtanh)

\* One iteration of the loop over time.  targets[t] raises IndexError past the
\* end of the list, target[targets[t]] = 1 raises it outside [-n, n).
BackwardStep ==
  /\ pc = "backward" /\ t >= 0
  /\ LET pos == IF t + 1 > Len(targets) THEN 0
                ELSE PyIndex(Rows(outputs[t + 1]), targets[t + 1])
     IN
     IF pos = 0
     THEN /\ pc' = "error" /\ err' = "IndexError"
          /\ UNCHANGED <<heap, t, dh_next, bwd_order, steps>>
     ELSE \E dy \in {MSub(outputs[t + 1], OneHot(outputs[t + 1], pos))} :
          \E h1 \in {Accumulate(heap, acc.dV,
                                 MatMul(dy, Transpose(hidden_states[t + 2])))} :
          \E h2 \in {Accumulate(h1, acc.dc, dy)} :
          \E dh \in {MAdd(MatMul(Transpose(h2["V"]), dy), dh_next)} :
          \E dtanh \in {MHad(OneMinusSq(hidden_states[t + 2]), dh)} :
          \E h3 \in {Accumulate(h2, acc.db, dtanh)} :
          \E h4 \in {Accumulate(h3, acc.dU, MatMul(dtanh, Transpose(inputs[t + 1])))} :
          \E h5 \in {Accumulate(h4, acc.dW,
                                 MatMul(dtanh, Transpose(hidden_states[t + 1])))} :
          \E carry \in {Carrier(h5["W"], dtanh)} :
              /\ heap' = h5
              /\ dh_next' = carry
              /\ steps' = Append(steps, [t |-> t, dy |-> dy, dh |-> dh, dtanh |-> dtanh,
                                         carry_in |-> dh_next, carry_out |-> carry])
              /\ bwd_order' = Append(bwd_order, t)
              /\ t' = NextBackwardT(t)
              /\ UNCHANGED <<pc, err>>
  /\ UNCHANGED <<acc, ret, mainVars, callVars, fwdVars, histVars>>
  /\ UNCHANGED otherNotebooks

\* return dU, dW, dV, db, dc
BackwardReturn ==
  /\ pc = "backward" /\ t < 0
  /\ memo' = memo \cup {[n |-> calls, args |-> BackwardArgs, grads |-> Grads]}
  /\ pc' = "update"
  /\ UNCHANGED <<heap, err, t, ret, calls, trail, mainVars, callVars, fwdVars, bwdVars>>
  /\ UNCHANGED otherNotebooks

\* ------------------------------------------------------------ train_step
\* Variant of the update: a step up the gradient.
UpdateRuleAscent(x, lr, g) == MAdd(x, MScale(lr, g))

\* X_new = X - learning_rate * dX
UpdateRule(x, lr, g) == MSub(x, MScale(lr, g))

\* -np.log(correct_prob + 1e-8) with correct_prob = outputs[t][targets[t], 0]
NLLTerm(out, tg) == -LogEps(out[PyIndex(Rows(out), tg)][1])

\* Variant of the loss: the sum, never divided by the number of steps.
MeanLossUndivided(outs, tgs) ==
  SeqSum([i \in 1..Len(tgs) |-> NLLTerm(outs[i], tgs[i])])

\* The loss loop over range(len(targets)), then loss / len(targets).
MeanLoss(outs, tgs) ==
  RDiv(SeqSum([i \in 1..Len(tgs) |-> NLLTerm(outs[i], tgs[i])]), Len(tgs))

\* The rest of train_step after backward returned: the five updates, the loss
\* loop and the return.  outputs[t] raises IndexError when targets is longer
\* than outputs; loss / len(targets) raises ZeroDivisionError on an empty list.
Update ==
  /\ pc = "update"
  /\ IF Len(targets) > Len(outputs)
        \/ \E i \in 1..Len(targets) : PyIndex(Rows(outputs[i]), targets[i]) = 0
     THEN pc' = "error" /\ err' = "IndexError" /\ UNCHANGED <<ret, trail>>
     ELSE IF Len(targets) = 0
     THEN pc' = "error" /\ err' = "ZeroDivisionError" /\ UNCHANGED <<ret, trail>>
     ELSE /\ ret' = [U |-> UpdateRule(heap["U"], learning_rate, heap[acc.dU]),
                     W |-> UpdateRule(heap["W"], learning_rate, heap[acc.dW]),
                     V |-> UpdateRule(heap["V"], learning_rate, heap[acc.dV]),
                     b |-> UpdateRule(heap["b"], learning_rate, heap[acc.db]),
                     c |-> UpdateRule(heap["c"], learning_rate, heap[acc.dc]),
                     loss |-> MeanLoss(outputs, targets)]
          /\ trail' = Append(trail, [op |-> "update", epoch |-> epoch, k |-> k,
                                     params |-> Params(heap),
                                     result |-> [n \in ParamNames |-> ret'[n]]])
          /\ pc' = "returned"
          /\ UNCHANGED err
  /\ UNCHANGED <<heap, t, mainVars, callVars, fwdVars, bwdVars, calls, memo>>
  /\ UNCHANGED otherNotebooks

\* Variant of the rebinding: the returned arrays are dropped, the names keep
\* the arrays that were passed in.
ReboundStale(h, r) == h

\* The heap once U, W, V, b, c are rebound to the arrays train_step returned.
Rebound(h, r) == [o \in DOMAIN h |-> IF o \in ParamNames THEN r[o] ELSE h[o]]

\* U, W, V, b, c, loss = train_step(...); total_loss += loss.  The names are
\* rebound to the returned arrays; the arrays passed in become unreachable.
Rebind ==
  /\ pc = "returned"
  /\ heap' = Rebound(heap, ret)
  /\ total_loss' = total_loss + ret.loss
  /\ k' = k + 1
  /\ pc' = "main"
  /\ UNCHANGED <<err, t, ret, training_data, learning_rate, epoch, avg_loss,
                 callVars, fwdVars, bwdVars, histVars>>
  /\ UNCHANGED otherNotebooks

Next ==
  \/ EpochBegin \/ TrainCall \/ EpochEnd \/ TestCall
  \/ ForwardEnter \/ ForwardStep \/ ForwardReturn
  \/ BackwardEnter \/ BackwardStep \/ BackwardReturn
  \/ Update \/ Rebind

Spec == Init /\ [][Next]_vars

\* ------------------------------------------------------------ properties
\* The program is inside a call (train_step, or main's own call of forward),
\* or has just left it by return or by an exception.
InCall == pc \notin {"epoch", "main"}

\* forward has returned to its caller.
ForwardReturned == pc \in {"backward_enter", "done"}

\* backward has returned to train_step.
BackwardReturned == pc = "update"

\* Number of time steps of the running call.
T == Len(inputs)

\* C1: from the call of train_step (or of forward by main) until its return
\* is consumed, through every step of forward and backward, the five
\* parameter arrays hold exactly the values passed in; train_step's updated
\* values exist only in its return value.
C1_ParamsUnchangedByCalls ==
  InCall => /\ Params(heap) = entry
            /\ \A g \in GradNames : acc[g] \notin ParamNames

\* C1 witness: train_step has returned updated values that differ from the
\* arrays it was passed, and those arrays are as they were.
C1_Witness ==
  /\ pc = "returned"
  /\ \A n \in ParamNames : ret[n] # entry[n]
  /\ Params(heap) = entry
  /\ Len(bwd_order) = MaxT

\* C2: when forward returns for T >= 1 inputs, it returns T outputs and T + 1
\* hidden states, hidden state 0 is all zero, hidden state t + 1 is the step
\* function of input t and hidden state t, and the iterations ran at
\* t = 0, 1, ..., T - 1 in this order.
C2_ForwardShape ==
  (ForwardReturned /\ T >= 1) =>
     /\ Len(outputs) = T
     /\ Len(hidden_states) = T + 1
     /\ hidden_states[1] = [i \in 1..hidden_size |-> <<0>>]
     /\ \A i \in 1..T :
          hidden_states[i + 1] =
            MTanh(MAdd(MAdd(MatMul(entry.U, inputs[i]),
                            MatMul(entry.W, hidden_states[i])), entry.b))
     /\ fwd_order = [i \in 1..T |-> i - 1]

\* C2 witness: forward returned for a sequence of the longest length, with a
\* last hidden state that is not zero.
C2_Witness ==
  /\ ForwardReturned /\ T = MaxT
  /\ Len(outputs) = MaxT
  /\ hidden_states[MaxT + 1] # [i \in 1..hidden_size |-> <<0>>]

\* C3: with a zero-length input sequence neither forward nor backward
\* returns a result.
C3_ZeroLengthRejected ==
  (ForwardReturned \/ BackwardReturned) => T # 0

\* C4: backward returns only when every target index of the T time steps
\* lies in [0, output_dim).
C4_TargetRangeRejected ==
  BackwardReturned =>
     \A i \in 1..T : i <= Len(targets) /\ targets[i] \in 0..(Rows(entry.V) - 1)

\* What the code does enforce (C4): backward returns only when every target
\* index of the T time steps lies in [-output_dim, output_dim).
TargetRangeEnforced ==
  BackwardReturned =>
     \A i \in 1..T : /\ i <= Len(targets)
                      /\ targets[i] \in (-Rows(entry.V))..(Rows(entry.V) - 1)

\* The gradient name of each parameter name.
GradName == [U |-> "dU", W |-> "dW", V |-> "dV", b |-> "db", c |-> "dc"]

\* The positions (row, column) of an array.
Entries(A) == {<<i, j>> : i \in 1..Rows(A), j \in 1..Cols(A)}

\* The running call has T >= 1 steps and one class index in [0, output_dim)
\* for each of them.
ValidCall ==
  /\ T >= 1 /\ Len(targets) = T
  /\ \A i \in 1..T : targets[i] \in 0..(Rows(entry.V) - 1)

\* The loss train_step reports, as a function of the parameters: the mean
\* negative log-likelihood of the outputs of forward under P.
LossAt(P) ==
  CHOOSE l \in {MeanLoss(outs, targets) : outs \in {ForwardRun(inputs, P).outputs}} : TRUE

\* Step of the finite difference (0.05) and tolerance of the comparison
\* (0.02).  The fixed-point loss is exact to about 1e-3, so a central
\* difference is exact to about 1e-2: the model cannot resolve the 1e-4 of
\* the claim, and a difference above FDTol is a difference above 1e-4.
FDStep == Scale \div 20
FDTol == Scale \div 50

\* Central finite difference of the loss in entry (i, j) of parameter n.
FiniteDiff(n, i, j) ==
  CHOOSE d \in
    {RDiv((up - down) * Scale, 2 * FDStep) :
       up \in {LossAt([entry EXCEPT ![n][i][j] = @ + FDStep])},
       down \in {LossAt([entry EXCEPT ![n][i][j] = @ - FDStep])}} : TRUE

\* C5: every entry of every gradient backward returns equals the finite
\* difference of the mean loss in that entry, up to the tolerance.
C5_GradientOfMeanLoss ==
  (BackwardReturned /\ ValidCall) =>
     \A n \in ParamNames : \A e \in Entries(entry[n]) :
        Abs(Grads[GradName[n]][e[1]][e[2]] - FiniteDiff(n, e[1], e[2])) <= FDTol

\* What the code computes (C5): the gradient of the loss summed over the T
\* steps, that is T times the finite difference of the mean loss.
GradientOfSummedLoss ==
  (BackwardReturned /\ ValidCall) =>
     \A n \in ParamNames : \A e \in Entries(entry[n]) :
        Abs(Grads[GradName[n]][e[1]][e[2]] - T * FiniteDiff(n, e[1], e[2])) <= T * FDTol

\* C6: each array train_step returns is the array it was passed minus
\* learning_rate times its gradient, the five gradients being those of the
\* one backward call of this train_step, run on the parameters passed in.
C6_UpdateIsGradientStep ==
  pc = "returned" =>
     /\ calls = epoch * Len(training_data) + k
     /\ \E m \in memo :
          /\ m.n = calls
          /\ m.args.params = entry
          /\ m.args.inputs = inputs /\ m.args.targets = targets
          /\ \A n \in ParamNames :
               ret[n] = MSub(entry[n], MScale(learning_rate, m.grads[GradName[n]]))

\* C6 witness: a returned update with a positive learning rate that moved
\* every one of the five arrays.
C6_Witness ==
  /\ pc = "returned" /\ learning_rate > 0
  /\ \A n \in ParamNames : ret[n] # entry[n]

\* C7: the loss train_step returns is the sum over the T steps of
\* -log(outputs[t][targets[t]] + 1e-8), divided by T, on the outputs of
\* forward under the parameters passed in.
C7_LossIsMeanNLL ==
  pc = "returned" =>
     \A outs \in {ForwardRun(inputs, entry).outputs} :
         /\ Len(targets) = T
         /\ ret.loss =
              RDiv(SeqSum([i \in 1..T |->
                     -LogEps(outs[i][PyIndex(output_size, targets[i])][1])]), T)

\* C7 witness: a returned loss over the longest sequence, with an update that
\* changes the outputs (the loss under the returned parameters differs).
C7_Witness ==
  /\ pc = "returned" /\ T = MaxT /\ T > 1
  /\ ret.loss > 0
  /\ MeanLoss(ForwardRun(inputs, [n \in ParamNames |-> ret[n]]).outputs, targets)
       # ret.loss

\* backward is running its loop or has returned.
InBackward == pc \in {"backward", "update", "returned"}

\* C8: when backward enters its loop, the five accumulators and the carrier
\* are zero, and any two backward calls with equal arguments returned equal
\* gradients, whatever ran between them.
C8_BackwardStartsFromZero ==
  /\ (pc = "backward" /\ bwd_order = <<>>) =>
        /\ \A n \in ParamNames :
             \A e \in Entries(entry[n]) : Grads[GradName[n]][e[1]][e[2]] = 0
        /\ \A n \in ParamNames :
             /\ Rows(Grads[GradName[n]]) = Rows(entry[n])
             /\ Cols(Grads[GradName[n]]) = Cols(entry[n])
        /\ dh_next = [i \in 1..hidden_size |-> <<0>>]
  /\ \A m1 \in memo : \A m2 \in memo : m1.args = m2.args => m1.grads = m2.grads

\* C8 witness: two backward calls with equal arguments and non-zero
\* gradients, with another backward call between them, and a third call
\* about to start its loop over accumulators that were just reset.
C8_Witness ==
  /\ pc = "backward" /\ bwd_order = <<>> /\ T >= 1
  /\ \E m1 \in memo : \E m2 \in memo :
        /\ m2.n > m1.n + 1
        /\ m1.args = m2.args
        /\ m1.grads.dW # ZerosLike(m1.grads.dW)

RECURSIVE MatSum(_, _)
\* Sum of a sequence of arrays of the shape of `zero`.
MatSum(seq, zero) ==
  IF seq = <<>> THEN zero ELSE MAdd(Head(seq), MatSum(Tail(seq), zero))

\* C9: while backward runs and when it returns, each gradient is the sum of
\* one contribution per visited time step, every step is visited at most
\* once, at return all T steps have been visited, and the five accumulators
\* are five different arrays.
C9_GradientsAreSums ==
  InBackward =>
    /\ \A i \in 1..Len(steps) : \A j \in 1..Len(steps) :
          steps[i].t = steps[j].t => i = j
    /\ \A i \in 1..Len(steps) : steps[i].t \in 0..(T - 1)
    /\ pc # "backward" => Len(steps) = T
    /\ \A g1 \in GradNames : \A g2 \in GradNames : acc[g1] = acc[g2] => g1 = g2
    /\ \A i \in 1..Len(steps) :
          steps[i].dy = MSub(outputs[steps[i].t + 1],
                             OneHot(outputs[steps[i].t + 1],
                                    PyIndex(output_size, targets[steps[i].t + 1])))
    /\ Grads.dc = MatSum([i \in 1..Len(steps) |-> steps[i].dy], ZerosLike(entry.c))
    /\ Grads.dV =
         MatSum([i \in 1..Len(steps) |->
                   MatMul(steps[i].dy, Transpose(hidden_states[steps[i].t + 2]))],
                ZerosLike(entry.V))
    /\ Grads.db = MatSum([i \in 1..Len(steps) |-> steps[i].dtanh], ZerosLike(entry.b))
    /\ Grads.dU =
         MatSum([i \in 1..Len(steps) |->
                   MatMul(steps[i].dtanh, Transpose(inputs[steps[i].t + 1]))],
                ZerosLike(entry.U))
    /\ Grads.dW =
         MatSum([i \in 1..Len(steps) |->
                   MatMul(steps[i].dtanh, Transpose(hidden_states[steps[i].t + 1]))],
                ZerosLike(entry.W))

\* C9 witness: backward returned after the longest sequence, and every
\* gradient differs from the contribution of its last-visited step alone.
C9_Witness ==
  /\ BackwardReturned /\ T = MaxT /\ T > 1
  /\ Grads.dc # steps[T].dy
  /\ Grads.db # steps[T].dtanh
  /\ Grads.dV # MatMul(steps[T].dy, Transpose(hidden_states[steps[T].t + 2]))
  /\ Grads.dU # MatMul(steps[T].dtanh, Transpose(inputs[steps[T].t + 1]))
  /\ Grads.dW # ZerosLike(entry.W)

\* C10: backward visits t = T - 1, T - 2, ..., 0 in this order, each once,
\* and the hidden-state gradient of a step is its output-layer term plus the
\* carrier of the step visited just before it (the step t + 1), which is
\* W transposed times that step's dtanh, and zero for the first visit.
C10_ReverseOrderAndCarrier ==
  InBackward =>
    /\ \A i \in 1..Len(bwd_order) : bwd_order[i] = T - i
    /\ Len(steps) = Len(bwd_order)
    /\ pc # "backward" => Len(bwd_order) = T
    /\ \A i \in 1..Len(steps) :
          /\ steps[i].t = bwd_order[i]
          /\ steps[i].dh =
               MAdd(MatMul(Transpose(entry.V), steps[i].dy),
                    IF i = 1 THEN [r \in 1..hidden_size |-> <<0>>]
                    ELSE MatMul(Transpose(entry.W), steps[i - 1].dtanh))
          /\ steps[i].dtanh =
               MHad(OneMinusSq(hidden_states[steps[i].t + 2]), steps[i].dh)

\* C10 witness: backward returned after the longest sequence and a non-zero
\* carrier reached the last-visited step t = 0.
C10_Witness ==
  /\ BackwardReturned /\ T = MaxT /\ T > 1
  /\ bwd_order[T] = 0
  /\ steps[T].carry_in # [r \in 1..hidden_size |-> <<0>>]
  /\ steps[T].carry_in = MatMul(Transpose(entry.W), steps[T - 1].dtanh)

\* ------------------------------------------------------------ C11
\* Position of the first input vector whose length is not the column count
\* of U (0 when every vector fits).
FirstBadInput ==
  IF \A i \in 1..Len(inputs) : Rows(inputs[i]) = Cols(heap["U"]) THEN 0
  ELSE CHOOSE i \in 1..Len(inputs) :
         /\ Rows(inputs[i]) # Cols(heap["U"])
         /\ \A j \in 1..(i - 1) : Rows(inputs[j]) = Cols(heap["U"])

\* C11: when some input vector's length differs from input_dim (the column
\* count of U), forward never returns: the call is still inside the loop,
\* before the offending vector, or has stopped with NumPy's shape error
\* there, and no later stage of train_step is ever reached.
C11_WrongLengthRejected ==
  FirstBadInput # 0 =>
    /\ pc \in {"forward_enter", "forward", "error"}
    /\ pc = "forward" => t < FirstBadInput /\ Len(outputs) = t
    /\ pc = "error" => err = "ValueError" /\ t = FirstBadInput - 1

\* forward has produced an output and then failed at a later, longer vector.
C11_Witness ==
  /\ pc = "error" /\ err = "ValueError"
  /\ FirstBadInput = 2 /\ Len(outputs) = 1
  /\ Rows(inputs[2]) > Cols(heap["U"])

\* ------------------------------------------------------------ C19
\* The operations of one train_step call, in the order the code runs them.
StepOrder == <<"forward", "backward", "update">>

\* C19: the forward, backward and update of the training loop come in this
\* order, once per pair, pair after pair in list order and epoch after epoch;
\* every call after the first works on exactly the parameters the call before
\* it returned, and between two calls the names U, W, V, b, c are bound to
\* what the last call returned.
C19_EachPairOnceInOrder ==
  LET N == Len(training_data) IN
  /\ \A i \in 1..Len(trail) :
       /\ trail[i].op = StepOrder[((i - 1) % 3) + 1]
       /\ trail[i].epoch = (i - 1) \div (3 * N)
       /\ trail[i].k = (((i - 1) \div 3) % N) + 1
       /\ trail[i].params = (IF i <= 3 THEN trail[1].params
                             ELSE trail[3 * ((i - 1) \div 3)].result)
  /\ pc = "main" => Len(trail) = 3 * (epoch * N + k - 1)
  /\ pc \in {"epoch", "done"} => Len(trail) = 3 * epoch * N
  /\ (pc \in {"main", "epoch"} /\ trail # <<>>) =>
       Params(heap) = trail[Len(trail)].result

\* C19 witness: the second epoch has begun on a list of two pairs, and each
\* of the three calls so far worked on different parameters.
C19_Witness ==
  /\ Len(training_data) = 2 /\ Len(trail) = 7
  /\ trail[7].epoch = 1 /\ trail[7].k = 1
  /\ trail[1].params # trail[4].params /\ trail[4].params # trail[7].params
  /\ trail[7].params = trail[6].result

\* ============================================================
\* Character-level LSTM language model (src/Q3.ipynb)
\* ============================================================
\* Characters are written as their indices 0..vocab_size-1 (char_to_index);
\* vocab_size stands for a character that is not in the vocabulary.
vocab_size == 3
embedding_dim == 2
hidden_dim == 2
num_layers == 2
MaxPredictLen == 2

\* torch.sigmoid, as the LSTM gates use it.
Sigmoid(x) ==
  CHOOSE r \in {IF v >= 0 THEN RDiv(Scale * Scale, Scale + e) ELSE RDiv(e * Scale, Scale + e) :
                  v \in {x}, e \in {ExpNeg(Abs(x))}} : TRUE

MSigmoid(A) == [i \in 1..Rows(A) |-> [j \in 1..Cols(A) |-> Sigmoid(A[i][j])]]

\* Seeds of the parameter values a trained model may hold.
ModelSeeds == {1, 2}

\* One entry of parameter tensor number n: a multiple of 0.2 in [-0.6, 0.6].
CharEntry(seed, n, i, j) ==
  (((seed * 3 + n * 5 + i * i * 2 + j * j * 3 + i * j + i) % 7) - 3) * (Scale \div 5)

\* One entry of fc.weight.  Under seed 2 the rows of characters 1 and 2 are
\* 0.0003 apart: a model that rates two characters almost equally.
FcEntry(seed, i, j) ==
  (((seed * 3 + (i \div seed) * 4 + j * 2 + (i \div seed) * j) % 7) - 3) * (Scale \div 5) + 3 * i

\* CharRNN.__init__: nn.Embedding(vocab_size, embedding_dim),
\* nn.LSTM(embedding_dim, hidden_dim, num_layers, batch_first=True) with its
\* per-layer weight_ih (4*hidden x in), weight_hh (4*hidden x hidden),
\* bias_ih, bias_hh (gate rows in the order i, f, g, o), and
\* nn.Linear(hidden_dim, vocab_size).
CharParams(seed) ==
  [embedding |-> [i \in 1..vocab_size |-> [j \in 1..embedding_dim |-> CharEntry(seed, 1, i, j)]],
   weight_ih |-> [l \in 1..num_layers |->
                    [i \in 1..(4 * hidden_dim) |->
                       [j \in 1..(IF l = 1 THEN embedding_dim ELSE hidden_dim) |->
                          CharEntry(seed, 2 * l, i, j)]]],
   weight_hh |-> [l \in 1..num_layers |->
                    [i \in 1..(4 * hidden_dim) |->
                       [j \in 1..hidden_dim |-> CharEntry(seed, 2 * l + 1, i, j)]]],
   bias_ih   |-> [l \in 1..num_layers |->
                    [i \in 1..(4 * hidden_dim) |-> <<CharEntry(seed, 7 + l, i, 1)>>]],
   bias_hh   |-> [l \in 1..num_layers |->
                    [i \in 1..(4 * hidden_dim) |-> <<CharEntry(seed, 9 + l, i, 2)>>]],
   fc_weight |-> [i \in 1..vocab_size |-> [j \in 1..hidden_dim |-> FcEntry(seed, i, j)]],
   fc_bias   |-> [i \in 1..vocab_size |-> <<0>>]]

\* CharRNN.init_hidden(batch_size, device): the pair (h_0, c_0), each of
\* shape (num_layers, batch_size, hidden_size).  A state vector is a column.
init_hidden_ones(bsize) ==
  [h |-> [l \in 1..num_layers |-> [r \in 1..bsize |-> [i \in 1..hidden_dim |-> <<Scale>>]]],
   c |-> [l \in 1..num_layers |-> [r \in 1..bsize |-> [i \in 1..hidden_dim |-> <<Scale>>]]]]
init_hidden(bsize) ==
  [h |-> [l \in 1..num_layers |-> [r \in 1..bsize |-> ZerosMat(hidden_dim, 1)]],
   c |-> [l \in 1..num_layers |-> [r \in 1..bsize |-> ZerosMat(hidden_dim, 1)]]]

\* Rows from..to of a column vector (one gate's slice of the 4*hidden rows).
Chunk(A, n) == SubSeq(A, (n - 1) * hidden_dim + 1, n * hidden_dim)

\* One time step of LSTM layer l on input column x from state (h, c):
\* i, f, o = sigmoid, g = tanh of W_ih x + b_ih + W_hh h + b_hh;
\* c' = f * c + i * g;  h' = o * tanh(c').
LSTMCell(P, l, x, h, c) ==
  CHOOSE r \in UNION {UNION
    {{[h |-> MHad(o, tc), c |-> c_new] :
        o \in {MSigmoid(Chunk(gates, 4))}, tc \in {MTanh(c_new)}} :
     c_new \in
       {MAdd(fc, ig) :
          fc \in {MHad(f, c) : f \in {MSigmoid(Chunk(gates, 2))}},
          ig \in {MHad(i, g) : i \in {MSigmoid(Chunk(gates, 1))},
                               g \in {MTanh(Chunk(gates, 3))}}}} :
     gates \in
       {MAdd(a, b) :
          a \in {MAdd(m, P.bias_ih[l]) : m \in {MatMul(P.weight_ih[l], x)}},
          b \in {MAdd(m, P.bias_hh[l]) : m \in {MatMul(P.weight_hh[l], h)}}}} : TRUE

\* self.embedding(x) for one character index: its row of the table, as a column.
Embed(P, x) == Transpose(<<P.embedding[x + 1]>>)

\* The stacked layers at one time step of one batch row: layer l reads the
\* output of layer l - 1 (the embedded character for the first layer) and its
\* own state hs[l], cs[l].  The result is the top layer's output and every
\* layer's new state.
RECURSIVE LayersFrom(_, _, _, _, _)
LayersFrom(P, l, x, hs, cs) ==
  IF l > num_layers THEN [out |-> x, h |-> hs, c |-> cs]
  ELSE CHOOSE r \in
         {LayersFrom(P, l + 1, cell.h, [hs EXCEPT ![l] = cell.h], [cs EXCEPT ![l] = cell.c]) :
            cell \in {LSTMCell(P, l, x, hs[l], cs[l])}} : TRUE

\* self.rnn followed by self.fc on one batch row: the characters xs[s..] from
\* the state (hs, cs); outs collects the fc outputs (logits) of every step.
RECURSIVE RowFrom(_, _, _, _, _, _)
RowFrom(P, xs, s, hs, cs, outs) ==
  IF s > Len(xs) THEN [out |-> outs, h |-> hs, c |-> cs]
  ELSE CHOOSE r \in UNION
         {{RowFrom(P, xs, s + 1, st.h, st.c, next_outs) :
             next_outs \in {Append(outs, MAdd(y, P.fc_bias)) :
                              y \in {MatMul(P.fc_weight, st.out)}}} :
          st \in {LayersFrom(P, 1, x, hs, cs) : x \in {Embed(P, xs[s])}}} : TRUE

\* CharRNN.forward(x, hidden): x of shape (batch_size, seq_len), hidden the
\* pair (h, c).  Returns out of shape (batch_size, seq_len, vocab_size) and
\* the state after the last step.  The batch rows do not interact.
CharForward(P, x, hid) ==
  CHOOSE res \in
    {[out    |-> [r \in 1..Len(x) |-> rows[r].out],
      hidden |-> [h |-> [l \in 1..num_layers |-> [r \in 1..Len(x) |-> rows[r].h[l]]],
                  c |-> [l \in 1..num_layers |-> [r \in 1..Len(x) |-> rows[r].c[l]]]]] :
       rows \in {[r \in 1..Len(x) |->
                    RowFrom(P, x[r], 1, [l \in 1..num_layers |-> hid.h[l][r]],
                            [l \in 1..num_layers |-> hid.c[l][r]], <<>>)]}} : TRUE

\* ------------------------------------------------------------ predict
\* temperature as a caller may pass it: the greedy call's 0.001, the default
\* 1.0, zero, and a negative value.
Temperatures == {-Scale, 0, Scale \div 1000, Scale}

\* outputs[:, -1, :] / temperature, for temperature # 0.
DivideByTemperature(logits, temp) ==
  [i \in 1..Rows(logits) |->
     <<IF temp < 0 THEN -RDiv(logits[i][1] * Scale, -temp)
       ELSE RDiv(logits[i][1] * Scale, temp)>>]

\* torch.multinomial(probabilities, num_samples=1): any index whose
\* probability is not zero may be drawn.  (A probability below half the
\* resolution of the numbers counts as zero here, so the indices listed are
\* a subset of those float32 arithmetic can draw.)
Multinomial(probabilities) ==
  {i \in 0..(Rows(probabilities) - 1) : probabilities[i + 1][1] > 0}

\* for _ in range(predict_len): the loop continues after gen_i iterations.
PredictMoreShort(i, n) == i < n - 1
PredictMore(i, n) == i < n

\* model.eval(); generated_text = [start_char];
\* input_eval = torch.tensor([[char_to_index[start_char]]]);
\* hidden = model.init_hidden(1, device)
PredictEnter ==
  /\ gen_pc = "call"
  /\ generated_text' = <<start_char>>
  /\ IF start_char \notin 0..(vocab_size - 1)
     THEN /\ gen_pc' = "error" /\ gen_err' = "KeyError"
          /\ UNCHANGED <<input_eval, hidden, init_calls>>
     ELSE /\ input_eval' = start_char
          /\ hidden' = init_hidden(1)
          /\ init_calls' = init_calls + 1
          /\ gen_pc' = "loop"
          /\ UNCHANGED gen_err
  /\ UNCHANGED <<model, start_char, predict_len, temperature, gen_i, gen_result, gen_trace>>
  /\ UNCHANGED outsideGen

\* One iteration of the loop: the model is called on input_eval and hidden,
\* the last step's logits are divided by temperature and normalised, one
\* index is drawn, appended and made the next input.  With temperature 0 the
\* division yields inf and nan only, softmax yields nan, and
\* torch.multinomial raises RuntimeError.
PredictStep ==
  /\ gen_pc = "loop" /\ PredictMore(gen_i, predict_len)
  /\ \E res \in {CharForward(model, <<<<input_eval>>>>, hidden)} :
     \E logits \in {res.out[1][Len(res.out[1])]} :
       /\ hidden' = res.hidden
       /\ IF temperature = 0
          THEN /\ gen_pc' = "error" /\ gen_err' = "RuntimeError"
               /\ gen_trace' = Append(gen_trace,
                    [input |-> input_eval, hidden_in |-> hidden, hidden_out |-> res.hidden,
                     logits |-> logits, index |-> -1])
               /\ UNCHANGED <<generated_text, input_eval, gen_i>>
          ELSE \E probabilities \in {softmax(DivideByTemperature(logits, temperature))} :
               \E predicted_index \in Multinomial(probabilities) :
                 /\ generated_text' = Append(generated_text, predicted_index)
                 /\ input_eval' = predicted_index
                 /\ gen_i' = gen_i + 1
                 /\ gen_trace' = Append(gen_trace,
                      [input |-> input_eval, hidden_in |-> hidden, hidden_out |-> res.hidden,
                       logits |-> logits, index |-> predicted_index])
                 /\ UNCHANGED <<gen_pc, gen_err>>
  /\ UNCHANGED <<model, start_char, predict_len, temperature, gen_result, init_calls>>
  /\ UNCHANGED outsideGen

\* return "".join(generated_text)
PredictReturn ==
  /\ gen_pc = "loop" /\ ~PredictMore(gen_i, predict_len)
  /\ gen_result' = generated_text
  /\ gen_pc' = "done"
  /\ UNCHANGED <<model, start_char, predict_len, temperature, generated_text, input_eval,
                 hidden, gen_i, gen_err, init_calls, gen_trace>>
  /\ UNCHANGED outsideGen

\* Any call predict(model, start_char, predict_len, temperature).
InitPredict ==
  /\ RnnIdle /\ BatchIdle /\ TrainIdle /\ NerIdle /\ TwoCallsIdle
  /\ model \in {CharParams(seed) : seed \in ModelSeeds}
  /\ start_char \in 0..vocab_size
  /\ predict_len \in -1..MaxPredictLen
  /\ temperature \in Temperatures
  /\ generated_text = <<>> /\ input_eval = 0 /\ hidden = <<>> /\ gen_i = 0
  /\ gen_pc = "call" /\ gen_err = "none" /\ gen_result = <<>>
  /\ init_calls = 0 /\ gen_trace = <<>>

NextPredict == PredictEnter \/ PredictStep \/ PredictReturn

\* predict is straight-line sequential code: while it has a next statement
\* it executes it.
SpecPredict == InitPredict /\ [][NextPredict]_vars /\ WF_vars(NextPredict)

\* ------------------------------------------------------------ C12
\* C12 as stated: when predict returns, the first element is the seed and,
\* counting the seed, the sequence holds exactly predict_len elements.
C12_EmitsLengthTokens ==
  gen_pc = "done" =>
    /\ gen_result[1] = start_char
    /\ Len(gen_result) = predict_len

\* C12 as amended: predict always terminates, by returning or by raising; the
\* first emitted element is always the seed; and a returned sequence holds
\* the seed followed by one sampled element per loop iteration, that is
\* predict_len + 1 elements (1 element when predict_len is negative).
C12_TerminatesWithSeedPlusLength ==
  /\ <>(gen_pc \in {"done", "error"})
  /\ [](generated_text # <<>> => generated_text[1] = start_char)
  /\ [](gen_pc = "done" =>
          /\ gen_result = generated_text
          /\ Len(gen_result) = 1 + (IF predict_len < 0 THEN 0 ELSE predict_len)
          /\ Len(gen_trace) = Len(gen_result) - 1)

\* predict has returned the seed and MaxPredictLen sampled characters.
C12_Witness ==
  /\ gen_pc = "done" /\ predict_len = MaxPredictLen
  /\ Len(gen_result) = MaxPredictLen + 1
  /\ gen_result[1] = start_char

\* ------------------------------------------------------------ C13
\* C13: with predict_len <= 0 or temperature <= 0, predict stops with an
\* error before the model is called or anything is sampled, and never returns.
C13_BadConfigurationRejected ==
  (predict_len <= 0 \/ temperature <= 0) =>
    /\ gen_pc # "done"
    /\ gen_trace = <<>>
    /\ gen_pc \in {"call", "error"}

\* ------------------------------------------------------------ C14
\* C14: init_hidden is called once, before the first step; the model's n-th
\* call receives the element emitted just before it (the seed for n = 1) and
\* the state its previous call returned (all zeros for n = 1).
C14_FeedbackAndCarriedState ==
  /\ init_calls = (IF gen_pc = "call" \/ start_char \notin 0..(vocab_size - 1) THEN 0 ELSE 1)
  /\ \A n \in 1..Len(gen_trace) :
       /\ gen_trace[n].input = generated_text[n]
       /\ gen_trace[n].hidden_in =
            IF n > 1 THEN gen_trace[n - 1].hidden_out
            ELSE [h |-> [l \in 1..num_layers |-> <<ZerosMat(hidden_dim, 1)>>],
                  c |-> [l \in 1..num_layers |-> <<ZerosMat(hidden_dim, 1)>>]]
  /\ gen_pc = "loop" /\ gen_trace # <<>> =>
       /\ hidden = gen_trace[Len(gen_trace)].hidden_out
       /\ input_eval = generated_text[Len(generated_text)]

\* Two steps were made, the second on another input and another state than
\* the first.
C14_Witness ==
  /\ Len(gen_trace) >= 2
  /\ gen_trace[2].input # gen_trace[1].input
  /\ gen_trace[2].hidden_in # gen_trace[1].hidden_in
  /\ gen_trace[2].hidden_in = gen_trace[1].hidden_out

\* ------------------------------------------------------------ C15
\* The index has the largest logit.
IsArgmax(logits, index) ==
  \A j \in 1..Rows(logits) : logits[index + 1][1] >= logits[j][1]

\* C15: with the greedy call's temperature 0.001 every emitted element is
\* the one with the maximum logit at its step.
C15_LowTemperatureIsArgmax ==
  temperature = Scale \div 1000 =>
    \A n \in 1..Len(gen_trace) : IsArgmax(gen_trace[n].logits, gen_trace[n].index)

\* ------------------------------------------------------------ get_batches
MaxData == 9
MaxSeq == 2
MaxBatch == 2

\* data = [char_to_index[char] for char in text], for a text of n characters.
Text(n, seed) == [i \in 1..n |-> (i * i + seed * i + i \div 3) % vocab_size]

\* The Python slice s[from:to] for 0 <= from <= to: positions past the end
\* are left out.
PySlice(s, from, to) ==
  SubSeq(s, (IF from > Len(s) THEN Len(s) ELSE from) + 1, IF to > Len(s) THEN Len(s) ELSE to)

\* if seq_end + 1 <= len(data): the sequence and its targets, which end one
\* character later, both lie inside the data.  The variant asks only for the
\* sequence itself to lie inside.
SeqFitsInputsOnly(seq_end, n) == seq_end <= n
SeqFits(seq_end, n) == seq_end + 1 <= n

\* The else branch of that test: batch_x = None, batch_y = None, break.  The
\* variant breaks out of the loop with the batch as it is, its remaining rows
\* still the zeros np.zeros put there.
BreakKeepingBatch(bat) == bat
DropBatch(bat) == [x |-> <<>>, y |-> <<>>, valid |-> FALSE]

\* The loop `for j in range(batch_size)` of batch i, from row j on.  bat
\* holds batch_x and batch_y with the rows filled so far; valid = FALSE
\* stands for batch_x = batch_y = None after the break.
RECURSIVE BatchRowsFrom(_, _, _, _, _, _)
BatchRowsFrom(text, seq_len, bsize, i, j, bat) ==
  IF j >= bsize THEN bat
  ELSE CHOOSE r \in UNION
         {{IF SeqFits(seq_end, Len(text))
           THEN BatchRowsFrom(text, seq_len, bsize, i, j + 1,
                  [x |-> [bat.x EXCEPT ![j + 1] = PySlice(text, seq_start, seq_end)],
                   y |-> [bat.y EXCEPT ![j + 1] = PySlice(text, seq_start + 1, seq_end + 1)],
                   valid |-> TRUE])
           ELSE DropBatch(bat) :
             seq_end \in {seq_start + seq_len}} :
          seq_start \in {i * bsize * seq_len + j * seq_len}} : TRUE

\* The loop `for i in range(n_batches)`, from batch i on: every batch that
\* is not None is appended to valid_batches_x and valid_batches_y.
RECURSIVE BatchesFrom(_, _, _, _, _, _)
BatchesFrom(text, seq_len, bsize, i, n_batches, got) ==
  IF i >= n_batches THEN got
  ELSE CHOOSE r \in
         {BatchesFrom(text, seq_len, bsize, i + 1, n_batches,
                      IF bat.valid THEN [x |-> Append(got.x, bat.x), y |-> Append(got.y, bat.y)]
                      ELSE got) :
            bat \in {BatchRowsFrom(text, seq_len, bsize, i, 0,
                                   [x |-> [r2 \in 1..bsize |-> [n \in 1..seq_len |-> 0]],
                                    y |-> [r2 \in 1..bsize |-> [n \in 1..seq_len |-> 0]],
                                    valid |-> TRUE])}} : TRUE

\* get_batches(data, seq_length, batch_size) for seq_length * batch_size > 0:
\* the stacked batches, of shape (batches, batch_size, seq_length); without
\* any valid batch the two empty tensors of size 0 in the first dimension.
get_batches(text, seq_len, bsize) ==
  BatchesFrom(text, seq_len, bsize, 0, Len(text) \div (seq_len * bsize),
              [x |-> <<>>, y |-> <<>>])

\* x_batches, y_batches = get_batches(data, seq_length, batch_size);
\* len(data) // 0 raises ZeroDivisionError.
GetBatchesCall ==
  /\ bat_pc = "call"
  /\ IF seq_length * batch_size = 0
     THEN /\ bat_pc' = "error" /\ bat_err' = "ZeroDivisionError"
          /\ UNCHANGED <<x_batches, y_batches>>
     ELSE /\ \E got \in {get_batches(data, seq_length, batch_size)} :
               x_batches' = got.x /\ y_batches' = got.y
          /\ bat_pc' = "done"
          /\ UNCHANGED bat_err
  /\ UNCHANGED <<data, seq_length, batch_size>>
  /\ UNCHANGED outsideBatch

\* Any call get_batches(data, seq_length, batch_size).
InitBatches ==
  /\ RnnIdle /\ ModelIdle /\ GenIdle /\ TrainIdle /\ NerIdle /\ TwoCallsIdle
  /\ data \in {Text(n, seed) : n \in 0..MaxData, seed \in {1, 2}}
  /\ seq_length \in 0..MaxSeq
  /\ batch_size \in 0..MaxBatch
  /\ x_batches = <<>> /\ y_batches = <<>>
  /\ bat_pc = "call" /\ bat_err = "none"

NextBatches == GetBatchesCall

SpecBatches == InitBatches /\ [][NextBatches]_vars

\* ------------------------------------------------------------ C17
\* C17 as stated: get_batches returns exactly floor(len(data) / (seq_length *
\* batch_size)) batches.
C17_FloorManyBatches ==
  bat_pc = "done" =>
    /\ Len(x_batches) = Len(data) \div (seq_length * batch_size)
    /\ Len(y_batches) = Len(x_batches)

\* C17 as amended: for seq_length, batch_size >= 1, get_batches returns
\* floor((len(data) - 1) / (seq_length * batch_size)) batches (none for empty
\* data), each of batch_size rows of seq_length consecutive characters with
\* the targets one position further in the data: a batch is
\* returned only when the character after its last input exists to be its
\* last target, so an exact multiple loses its last batch of inputs too.
C17_BatchesWithTargets ==
  bat_pc = "done" =>
    /\ Len(x_batches) = (IF Len(data) = 0 THEN 0
                         ELSE (Len(data) - 1) \div (seq_length * batch_size))
    /\ Len(y_batches) = Len(x_batches)
    /\ \A i \in 1..Len(x_batches) :
         /\ Len(x_batches[i]) = batch_size /\ Len(y_batches[i]) = batch_size
         /\ \A j \in 1..batch_size :
              /\ Len(x_batches[i][j]) = seq_length /\ Len(y_batches[i][j]) = seq_length
              /\ \A n \in 1..seq_length :
                   LET at == ((i - 1) * batch_size + (j - 1)) * seq_length + n
                   IN  x_batches[i][j][n] = data[at] /\ y_batches[i][j][n] = data[at + 1]

\* The data is an exact multiple of a batch, and a batch was returned.
C17_Witness ==
  /\ bat_pc = "done"
  /\ Len(data) = 2 * seq_length * batch_size
  /\ batch_size > 1 /\ seq_length > 1
  /\ Len(x_batches) = 1

\* ------------------------------------------------------------ C21
\* Row j of returned batch i starts at this position of the data (0-based).
RowStart(i, j) == ((i - 1) * batch_size + (j - 1)) * seq_length

\* C21: every batch get_batches returns has exactly batch_size rows, every
\* row of inputs is seq_length consecutive elements of the data, never a row
\* of placeholder zeros or a batch filled in part, and every target is the
\* data element right after the input at the same row and position.
C21_FullBatchesOfNextElements ==
  bat_pc = "done" =>
    /\ DOMAIN y_batches = DOMAIN x_batches
    /\ \A i \in DOMAIN x_batches :
         /\ DOMAIN x_batches[i] = 1..batch_size
         /\ DOMAIN y_batches[i] = 1..batch_size
         /\ \A j \in 1..batch_size :
              /\ RowStart(i, j) + seq_length + 1 <= Len(data)
              /\ x_batches[i][j] = SubSeq(data, RowStart(i, j) + 1, RowStart(i, j) + seq_length)
              /\ y_batches[i][j] = SubSeq(data, RowStart(i, j) + 2, RowStart(i, j) + seq_length + 1)

\* C21 witness: a batch was returned, and the next one was dropped after its
\* first row had been filled, the data ending before the second row's target.
C21_Witness ==
  /\ bat_pc = "done" /\ batch_size > 1
  /\ Len(x_batches) >= 1
  /\ Len(data) \div (seq_length * batch_size) > Len(x_batches)
  /\ RowStart(Len(x_batches) + 1, 1) + seq_length + 1 <= Len(data)
  /\ RowStart(Len(x_batches) + 1, 2) + seq_length + 1 > Len(data)
  /\ \E n \in DOMAIN data : data[n] # 0

\* ============================================================
\* Training of the character model (src/Q3.ipynb)
\* ============================================================
\* ------------------------------------------------------------ autograd
\* What the forward pass of one batch row saves for the backward pass: at
\* every time step, the input x[l] of every layer (the embedded character for
\* the first, the output of the layer below for the others), the state
\* (h[l], c[l]) every layer started the step from, and the logits.
RECURSIVE RowTape(_, _, _, _, _, _)
RowTape(P, xs, s, hs, cs, saved) ==
  IF s > Len(xs) THEN saved
  ELSE CHOOSE r \in UNION
         {{RowTape(P, xs, s + 1, st.h, st.c,
                   Append(saved, [x |-> [l \in 1..num_layers |-> IF l = 1 THEN x0 ELSE st.h[l - 1]],
                                 h |-> hs, c |-> cs, top |-> st.out,
                                 logits |-> MAdd(MatMul(P.fc_weight, st.out), P.fc_bias)])) :
             st \in {LayersFrom(P, 1, x0, hs, cs)}} :
          x0 \in {Embed(P, xs[s])}} : TRUE

\* The tapes of all rows of a batch x, from the state hid.
Tape(P, x, hid) ==
  [r \in 1..Len(x) |->
     RowTape(P, x[r], 1, [l \in 1..num_layers |-> hid.h[l][r]],
             [l \in 1..num_layers |-> hid.c[l][r]], <<>>)]

\* The derivative s * (1 - s) of the sigmoid, from its value s.
SigPrime(A) == [i \in 1..Rows(A) |-> [j \in 1..Cols(A) |-> Mul(A[i][j], Scale - A[i][j])]]

\* The gate values of LSTM layer l at one step, and tanh of the new cell state.
Gates(P, l, x, h, c) ==
  CHOOSE r \in UNION
    {{[i |-> i, f |-> f, g |-> g, o |-> MSigmoid(Chunk(a, 4)),
       tc |-> MTanh(MAdd(MHad(f, c), MHad(i, g)))] :
        i \in {MSigmoid(Chunk(a, 1))}, f \in {MSigmoid(Chunk(a, 2))},
        g \in {MTanh(Chunk(a, 3))}} :
     a \in {MAdd(MAdd(MatMul(P.weight_ih[l], x), P.bias_ih[l]),
                 MAdd(MatMul(P.weight_hh[l], h), P.bias_hh[l]))}} : TRUE

\* Backward of one LSTM cell: from the gradient dh of its output and dcn of
\* its new cell state, the gradient da of the four gate pre-activations (rows
\* in the order i, f, g, o), and the gradients of the input x and of the
\* state (h, c) the step started from.
CellGrad(P, l, x, h, c, dh, dcn) ==
  CHOOSE r \in UNION {UNION
    {{[da |-> da, dc |-> MHad(dc, gt.f),
       dx |-> MatMul(Transpose(P.weight_ih[l]), da),
       dh |-> MatMul(Transpose(P.weight_hh[l]), da)] :
        da \in {MHad(MHad(dc, gt.g), SigPrime(gt.i))
                  \o MHad(MHad(dc, c), SigPrime(gt.f))
                  \o MHad(MHad(dc, gt.i), OneMinusSq(gt.g))
                  \o MHad(MHad(dh, gt.tc), SigPrime(gt.o))}} :
     dc \in {MAdd(MHad(MHad(dh, gt.o), OneMinusSq(gt.tc)), dcn)}} :
     gt \in {Gates(P, l, x, h, c)}} : TRUE

\* Backward through the stacked layers at one time step, top layer first:
\* layer l receives dabove from the layer above it (from fc for the top
\* layer) plus dhn[l], dcn[l] from the next time step.
RECURSIVE LayersBack(_, _, _, _, _, _, _)
LayersBack(P, l, step, dabove, dhn, dcn, got) ==
  IF l = 0 THEN [da |-> got.da, dh |-> got.dh, dc |-> got.dc, dx |-> dabove]
  ELSE CHOOSE r \in
         {LayersBack(P, l - 1, step, cg.dx, dhn, dcn,
                     [da |-> [got.da EXCEPT ![l] = cg.da],
                      dh |-> [got.dh EXCEPT ![l] = cg.dh],
                      dc |-> [got.dc EXCEPT ![l] = cg.dc]]) :
            cg \in {CellGrad(P, l, step.x[l], step.h[l], step.c[l],
                             MAdd(dabove, dhn[l]), dcn[l])}} : TRUE

\* Backward through time on one batch row, last step first; dzs[s] is the
\* gradient of the loss in the logits of step s.  The result holds, for every
\* step, the gate gradients of every layer and the gradient of the embedding.
RECURSIVE RowBack(_, _, _, _, _, _, _)
RowBack(P, saved, dzs, s, dhn, dcn, deltas) ==
  IF s = 0 THEN deltas
  ELSE CHOOSE r \in
         {RowBack(P, saved, dzs, s - 1, lb.dh, lb.dc,
                  [deltas EXCEPT ![s] = [da |-> lb.da, dx |-> lb.dx]]) :
            lb \in {LayersBack(P, num_layers, saved[s],
                               MatMul(Transpose(P.fc_weight), dzs[s]), dhn, dcn,
                               [da |-> dhn, dh |-> dhn, dc |-> dcn])}} : TRUE

\* Gradient in the logits z of the mean cross entropy over n positions, at a
\* position whose target is the character y: (softmax(z) - onehot(y)) / n.
DLogits(z, y, n) ==
  CHOOSE r \in {[i \in 1..Rows(z) |-> <<RDiv(q[i][1] - (IF i = y + 1 THEN Scale ELSE 0), n)>>] :
                  q \in {softmax(z)}} : TRUE

\* Sum of F(r, s) over the rows r and the time steps s of a batch.
SumOver(rows, width, F(_, _)) ==
  SeqSum([n \in 1..(rows * width) |-> F(((n - 1) \div width) + 1, ((n - 1) % width) + 1)])

\* The gradient of the batch's mean cross entropy in every parameter, as
\* loss.backward() computes it from the tape tp of the forward pass on the
\* batch (x, y): every parameter's gradient is the sum, over rows and time
\* steps, of the outer product of what flowed back into it and what it was
\* multiplied with.
Gradient(P, x, y, tp) ==
  CHOOSE g \in UNION
    {{[embedding |->
         [v \in 1..Rows(P.embedding) |->
            [j \in 1..Cols(P.embedding) |->
               SumOver(Len(x), Len(x[1]),
                       LAMBDA r, s : IF x[r][s] = v - 1 THEN deltas[r][s].dx[j][1] ELSE 0)]],
       weight_ih |->
         [l \in 1..num_layers |->
            [i \in 1..Rows(P.weight_ih[l]) |->
               [j \in 1..Cols(P.weight_ih[l]) |->
                  SumOver(Len(x), Len(x[1]),
                          LAMBDA r, s : Mul(deltas[r][s].da[l][i][1], tp[r][s].x[l][j][1]))]]],
       weight_hh |->
         [l \in 1..num_layers |->
            [i \in 1..Rows(P.weight_hh[l]) |->
               [j \in 1..Cols(P.weight_hh[l]) |->
                  SumOver(Len(x), Len(x[1]),
                          LAMBDA r, s : Mul(deltas[r][s].da[l][i][1], tp[r][s].h[l][j][1]))]]],
       bias_ih |->
         [l \in 1..num_layers |->
            [i \in 1..Rows(P.bias_ih[l]) |->
               <<SumOver(Len(x), Len(x[1]), LAMBDA r, s : deltas[r][s].da[l][i][1])>>]],
       bias_hh |->
         [l \in 1..num_layers |->
            [i \in 1..Rows(P.bias_hh[l]) |->
               <<SumOver(Len(x), Len(x[1]), LAMBDA r, s : deltas[r][s].da[l][i][1])>>]],
       fc_weight |->
         [i \in 1..Rows(P.fc_weight) |->
            [j \in 1..Cols(P.fc_weight) |->
               SumOver(Len(x), Len(x[1]),
                       LAMBDA r, s : Mul(dzs[r][s][i][1], tp[r][s].top[j][1]))]],
       fc_bias |->
         [i \in 1..Rows(P.fc_bias) |->
            <<SumOver(Len(x), Len(x[1]), LAMBDA r, s : dzs[r][s][i][1])>>]] :
        deltas \in
          {[r \in 1..Len(x) |->
              RowBack(P, tp[r], dzs[r], Len(x[r]),
                      [l \in 1..num_layers |-> ZerosMat(hidden_dim, 1)],
                      [l \in 1..num_layers |-> ZerosMat(hidden_dim, 1)],
                      [n \in 1..Len(x[r]) |-> <<>>])]}} :
     dzs \in {[r \in 1..Len(x) |->
                [s \in 1..Len(x[r]) |->
                   DLogits(tp[r][s].logits, y[r][s], Len(x) * Len(x[1]))]]}} : TRUE

\* -log_softmax(z)[y] = max(z) - z[y] + log(sum(exp(z - max(z)))).
NLLOfLogits(z, y) ==
  CHOOSE r \in UNION
    {{(mx - col[y + 1]) + LnPos(SeqSum([i \in 1..Len(col) |-> ExpNeg(mx - col[i])])) :
        mx \in {SeqMax(col)}} :
     col \in {[i \in 1..Rows(z) |-> z[i][1]]}} : TRUE

\* criterion(outputs.view(-1, vocab_size), targets.view(-1)) with
\* nn.CrossEntropyLoss(): the mean over all positions of the batch.
CrossEntropy(outs, y) ==
  RDiv(SumOver(Len(y), Len(y[1]), LAMBDA r, s : NLLOfLogits(outs[r][s], y[r][s])),
       Len(y) * Len(y[1]))

\* ------------------------------------------------------------ optimizer
\* An elementwise operation on two arrays of one shape; the same operation on
\* every pair of corresponding tensors of two parameter-shaped records.
MZip(A, B, f(_, _)) == [i \in 1..Rows(A) |-> [j \in 1..Cols(A) |-> f(A[i][j], B[i][j])]]

ZipParams(A, B, F(_, _)) ==
  [embedding |-> F(A.embedding, B.embedding),
   weight_ih |-> [l \in 1..num_layers |-> F(A.weight_ih[l], B.weight_ih[l])],
   weight_hh |-> [l \in 1..num_layers |-> F(A.weight_hh[l], B.weight_hh[l])],
   bias_ih   |-> [l \in 1..num_layers |-> F(A.bias_ih[l], B.bias_ih[l])],
   bias_hh   |-> [l \in 1..num_layers |-> F(A.bias_hh[l], B.bias_hh[l])],
   fc_weight |-> F(A.fc_weight, B.fc_weight),
   fc_bias   |-> F(A.fc_bias, B.fc_bias)]

\* A record of zeros with the shapes of the parameters.
ZeroParams(P) == ZipParams(P, P, LAMBDA a, b : ZerosLike(a))

\* model.parameters(): the tensors in registration order.
Tensors(G) ==
  [n \in 1..(4 * num_layers + 3) |->
     IF n = 1 THEN G.embedding
     ELSE IF n = 4 * num_layers + 2 THEN G.fc_weight
     ELSE IF n = 4 * num_layers + 3 THEN G.fc_bias
     ELSE IF (n - 2) % 4 = 0 THEN G.weight_ih[((n - 2) \div 4) + 1]
     ELSE IF (n - 2) % 4 = 1 THEN G.weight_hh[((n - 2) \div 4) + 1]
     ELSE IF (n - 2) % 4 = 2 THEN G.bias_ih[((n - 2) \div 4) + 1]
     ELSE G.bias_hh[((n - 2) \div 4) + 1]]

\* The integer square root, by Newton's iteration from above.
RECURSIVE IsqrtFrom(_, _)
IsqrtFrom(n, x) ==
  CHOOSE r \in {IF y >= x THEN x ELSE IsqrtFrom(n, y) : y \in {(x + n \div x) \div 2}} : TRUE

Isqrt(n) == IF n = 0 THEN 0 ELSE IsqrtFrom(n, n)

\* Sum of the squares of an array's entries taken to 4 - e decimals, in
\* units of 10^(2e - 8): coarser entries keep a larger sum in range.
MatSqSum(A, e) ==
  SeqSum([n \in 1..(Rows(A) * Cols(A)) |->
            RDiv(A[((n - 1) \div Cols(A)) + 1][((n - 1) % Cols(A)) + 1], 10^e)
              * RDiv(A[((n - 1) \div Cols(A)) + 1][((n - 1) % Cols(A)) + 1], 10^e)])

\* The norm of all gradients taken together as one vector: to three decimals
\* where its square is below 1000, to two above.
TotalNorm(G) ==
  CHOOSE r \in UNION
    {{IF coarse < 10^7
      THEN 10 * Isqrt(SeqSum([n \in 1..Len(ts) |-> MatSqSum(ts[n], 1)]))
      ELSE 100 * Isqrt(coarse) :
        coarse \in {SeqSum([n \in 1..Len(ts) |-> MatSqSum(ts[n], 2)])}} :
     ts \in {Tensors(G)}} : TRUE

\* nn.utils.clip_grad_norm_(model.parameters(), 5)
max_norm == 5

\* clip_coef = max_norm / (total_norm + 1e-6), clamped to at most 1.0 (1e-6
\* is below the resolution).
ClipCoef(total_norm) ==
  IF total_norm <= max_norm * Scale THEN Scale
  ELSE RDiv(max_norm * Scale * Scale, total_norm)

\* Variant of the clipping: the gradients are left as they are.
clip_grad_norm_off(G) == G

\* clip_grad_norm_: every gradient is multiplied, in place, by the clamped
\* coefficient, so that the total norm is at most max_norm.
clip_grad_norm_(G) ==
  CHOOSE r \in {ZipParams(G, G, LAMBDA a, b : MScale(coef, a)) :
                  coef \in {ClipCoef(TotalNorm(G))}} : TRUE

\* lr of torch.optim.Adam(model.parameters(), lr=learning_rate); the betas
\* are Adam's defaults (0.9, 0.999), eps = 1e-8 is below the resolution.
adam_lr == Scale \div 100

\* 1 - 0.9^n in units of 10^-3 and 1 - 0.999^n in units of 10^-6.
RECURSIVE BetaPow(_, _, _)
BetaPow(num, den, n) == IF n = 0 THEN 10^6 ELSE RDiv(num * BetaPow(num, den, n - 1), den)

BiasCorrection1(n) == RDiv(10^6 - BetaPow(9, 10, n), 1000)
BiasCorrection2(n) == 10^6 - BetaPow(999, 1000, n)

\* exp_avg = 0.9 * exp_avg + 0.1 * grad, kept in units of 10^-5.
ExpAvg(m, g) == RDiv(9 * m, 10) + g

\* exp_avg_sq = 0.999 * exp_avg_sq + 0.001 * grad^2, kept in units of 10^-10:
\* a squared gradient below that resolution counts as zero.
ExpAvgSq(v, g) ==
  (v - RDiv(v, 1000)) + ((Abs(g) \div 10) * Abs(g) + RDiv((Abs(g) % 10) * Abs(g), 10))

\* sqrt(exp_avg_sq / bc2) in units of 10^-4, to four decimals where the
\* quotient is small and to three where it is large.
AdamRoot(v, bc2) ==
  IF v \div bc2 < 200000
  THEN Isqrt((v \div bc2) * 10^4 + RDiv((v % bc2) * 10^4, bc2))
  ELSE 10 * Isqrt((v \div bc2) * 100 + RDiv((v % bc2) * 100, bc2))

\* The step of one entry: lr * (exp_avg / bc1) / (sqrt(exp_avg_sq / bc2) + eps),
\* from exp_avg m and exp_avg_sq v after n steps; where the root is below the
\* resolution so is the entry's gradient history, and the step counts as zero.
AdamDelta(m, v, n) ==
  CHOOSE r \in UNION
    {{IF denom = 0 THEN 0 ELSE RDiv(adam_lr * RDiv(m * 100, BiasCorrection1(n)), denom) :
        denom \in {AdamRoot(v, bc2)}} :
     bc2 \in {BiasCorrection2(n)}} : TRUE

\* optimizer.step() on parameters P with gradients G: the new parameters and
\* the new optimizer state.
AdamStep(P, G, st) ==
  CHOOSE r \in UNION
    {{[params |-> ZipParams(P, ZipParams(m, v, LAMBDA a, b :
                                MZip(a, b, LAMBDA x, y : AdamDelta(x, y, st.step + 1))),
                            LAMBDA a, d : MSub(a, d)),
       opt |-> [step |-> st.step + 1, exp_avg |-> m, exp_avg_sq |-> v]] :
        m \in {ZipParams(st.exp_avg, G, LAMBDA a, b : MZip(a, b, ExpAvg))},
        v \in {ZipParams(st.exp_avg_sq, G, LAMBDA a, b : MZip(a, b, ExpAvgSq))}}} : TRUE

\* ------------------------------------------------------------ training loop
\* The longest text the training loop is run on.
MaxTrainData == 5

\* A model late in training: its output layer has grown 35 times sharper,
\* so that wrong predictions give large gradients.
SharpParams(seed) ==
  [CharParams(seed) EXCEPT
     !.fc_weight = [i \in 1..vocab_size |-> [j \in 1..hidden_dim |-> 35 * @[i][j]]]]

\* Variant: the state the last forward pass returned is kept for the next batch.
KeepHidden(old, bsize) == IF old = <<>> THEN init_hidden(bsize) ELSE old

\* hidden = model.init_hidden(current_batch_size, device): the name is
\* rebound to a new zero state, whatever it held.
NextHidden(old, bsize) == init_hidden(bsize)

\* Variant: zero_grad leaves the gradients as they are.
KeptGrads(g) == g

\* optimizer.zero_grad(): every parameter's .grad is reset to None.
ZeroedGrads(g) == None

\* loss.backward() adds the gradient to each parameter's .grad, or sets it
\* where the parameter has none.
Accumulated(g, new) == IF g = None THEN new ELSE ZipParams(g, new, MAdd)

\* for epoch in range(num_epochs): x_batches, y_batches = get_batches(...);
\* without batches the epoch is skipped, else num_batches and epoch_loss are set.
TrainEpochBegin ==
  /\ tr_pc = "epoch" /\ tr_epoch < num_epochs
  /\ \E got \in {get_batches(data, seq_length, batch_size)} :
       /\ x_batches' = got.x /\ y_batches' = got.y
       /\ IF Len(got.x) = 0
          THEN /\ tr_epoch' = tr_epoch + 1
               /\ UNCHANGED <<tr_pc, num_batches, epoch_loss, batch_idx>>
          ELSE /\ num_batches' = Len(got.x)
               /\ epoch_loss' = 0 /\ batch_idx' = 0
               /\ tr_pc' = "batch"
               /\ UNCHANGED tr_epoch
  /\ UNCHANGED <<tr_avg_loss, tr_loss, tr_inputs, tr_targets, tr_hidden, tr_outputs,
                 tape, grads, opt, tr_log, tr_hist, fresh_grad>>
  /\ UNCHANGED <<model, data, seq_length, batch_size, bat_pc, bat_err>>
  /\ UNCHANGED <<rnnVars, genVars, nerVars, twoCallVars>>

\* for batch_idx in range(num_batches): inputs = x_batches[batch_idx];
\* targets = y_batches[batch_idx]; hidden = model.init_hidden(inputs.size(0))
TrainBatchBegin ==
  /\ tr_pc = "batch" /\ batch_idx < num_batches
  /\ tr_inputs' = x_batches[batch_idx + 1]
  /\ tr_targets' = y_batches[batch_idx + 1]
  /\ tr_hidden' = NextHidden(tr_hidden, Len(x_batches[batch_idx + 1]))
  /\ tr_log' = <<"init_hidden">>
  /\ tr_pc' = "zero_grad"
  /\ UNCHANGED <<tr_epoch, batch_idx, num_batches, epoch_loss, tr_avg_loss, tr_loss,
                 tr_outputs, tape, grads, opt, tr_hist, fresh_grad>>
  /\ UNCHANGED <<modelVars, batchVars, rnnVars, genVars, nerVars, twoCallVars>>

\* optimizer.zero_grad()
ZeroGrad ==
  /\ tr_pc = "zero_grad"
  /\ grads' = ZeroedGrads(grads)
  /\ tr_log' = Append(tr_log, "zero_grad")
  /\ tr_pc' = "forward"
  /\ UNCHANGED <<tr_epoch, batch_idx, num_batches, epoch_loss, tr_avg_loss, tr_loss,
                 tr_inputs, tr_targets, tr_hidden, tr_outputs, tape, opt, tr_hist,
                 fresh_grad>>
  /\ UNCHANGED <<modelVars, batchVars, rnnVars, genVars, nerVars, twoCallVars>>

\* outputs, hidden = model(inputs, hidden)
TrainForward ==
  /\ tr_pc = "forward"
  /\ \E res \in {CharForward(model, tr_inputs, tr_hidden)} :
       /\ tr_outputs' = res.out
       /\ tr_hidden' = res.hidden
       /\ tr_hist' = Append(tr_hist, [epoch |-> tr_epoch, batch |-> batch_idx,
                                      hidden_in |-> tr_hidden,
                                      hidden_out |-> res.hidden])
  /\ tape' = Tape(model, tr_inputs, tr_hidden)
  /\ tr_log' = Append(tr_log, "forward")
  /\ tr_pc' = "loss"
  /\ UNCHANGED <<tr_epoch, batch_idx, num_batches, epoch_loss, tr_avg_loss, tr_loss,
                 tr_inputs, tr_targets, grads, opt, fresh_grad>>
  /\ UNCHANGED <<modelVars, batchVars, rnnVars, genVars, nerVars, twoCallVars>>

\* loss = criterion(outputs.view(-1, vocab_size), targets.view(-1));
\* epoch_loss += loss.item()
TrainLoss ==
  /\ tr_pc = "loss"
  /\ \E loss \in {CrossEntropy(tr_outputs, tr_targets)} :
       tr_loss' = loss /\ epoch_loss' = epoch_loss + loss
  /\ tr_pc' = "backward"
  /\ UNCHANGED <<tr_epoch, batch_idx, num_batches, tr_avg_loss, tr_inputs, tr_targets,
                 tr_hidden, tr_outputs, tape, grads, opt, tr_log, tr_hist, fresh_grad>>
  /\ UNCHANGED <<modelVars, batchVars, rnnVars, genVars, nerVars, twoCallVars>>

\* loss.backward()
TrainBackward ==
  /\ tr_pc = "backward"
  /\ \E g \in {Gradient(model, tr_inputs, tr_targets, tape)} :
       /\ grads' = Accumulated(grads, g)
       /\ fresh_grad' = g
  /\ tr_log' = Append(tr_log, "backward")
  /\ tr_pc' = "clip"
  /\ UNCHANGED <<tr_epoch, batch_idx, num_batches, epoch_loss, tr_avg_loss, tr_loss,
                 tr_inputs, tr_targets, tr_hidden, tr_outputs, tape, opt, tr_hist>>
  /\ UNCHANGED <<modelVars, batchVars, rnnVars, genVars, nerVars, twoCallVars>>

\* nn.utils.clip_grad_norm_(model.parameters(), 5)
TrainClip ==
  /\ tr_pc = "clip"
  /\ grads' = clip_grad_norm_(grads)
  /\ tr_log' = Append(tr_log, "clip")
  /\ tr_pc' = "step"
  /\ UNCHANGED <<tr_epoch, batch_idx, num_batches, epoch_loss, tr_avg_loss, tr_loss,
                 tr_inputs, tr_targets, tr_hidden, tr_outputs, tape, opt, tr_hist,
                 fresh_grad>>
  /\ UNCHANGED <<modelVars, batchVars, rnnVars, genVars, nerVars, twoCallVars>>

\* optimizer.step(), then the next batch_idx
TrainOptStep ==
  /\ tr_pc = "step"
  /\ \E a \in {AdamStep(model, grads, opt)} :
       model' = a.params /\ opt' = a.opt
  /\ tr_log' = Append(tr_log, "step")
  /\ batch_idx' = batch_idx + 1
  /\ tr_pc' = "batch"
  /\ UNCHANGED <<tr_epoch, num_batches, epoch_loss, tr_avg_loss, tr_loss, tr_inputs,
                 tr_targets, tr_hidden, tr_outputs, tape, grads, tr_hist, fresh_grad>>
  /\ UNCHANGED <<batchVars, rnnVars, genVars, nerVars, twoCallVars>>

\* avg_loss = epoch_loss / num_batches if num_batches > 0 else 0
TrainEpochEnd ==
  /\ tr_pc = "batch" /\ batch_idx >= num_batches
  /\ tr_avg_loss' = (IF num_batches > 0 THEN RDiv(epoch_loss, num_batches) ELSE 0)
  /\ tr_epoch' = tr_epoch + 1
  /\ tr_pc' = "epoch"
  /\ UNCHANGED <<batch_idx, num_batches, epoch_loss, tr_loss, tr_inputs, tr_targets,
                 tr_hidden, tr_outputs, tape, grads, opt, tr_log, tr_hist, fresh_grad>>
  /\ UNCHANGED <<modelVars, batchVars, rnnVars, genVars, nerVars, twoCallVars>>

\* The notebook's training cell on a text of up to MaxTrainData characters,
\* with seq_length and batch_size at least 1 as the hyperparameters are.
InitCharTrain ==
  /\ RnnIdle /\ GenIdle /\ NerIdle /\ TwoCallsIdle
  /\ model \in {CharParams(seed) : seed \in ModelSeeds} \cup {SharpParams(1)}
  /\ data \in {Text(n, seed) : n \in 0..MaxTrainData, seed \in {1, 2}}
  /\ seq_length \in 1..MaxSeq
  /\ batch_size \in 1..MaxBatch
  /\ x_batches = <<>> /\ y_batches = <<>> /\ bat_pc = "idle" /\ bat_err = "none"
  /\ tr_pc = "epoch" /\ tr_epoch = 0 /\ batch_idx = 0 /\ num_batches = 0
  /\ epoch_loss = 0 /\ tr_avg_loss = 0 /\ tr_loss = 0
  /\ tr_inputs = <<>> /\ tr_targets = <<>> /\ tr_hidden = <<>>
  /\ tr_outputs = <<>> /\ tape = <<>> /\ grads = None
  /\ opt = [step |-> 0, exp_avg |-> ZeroParams(model), exp_avg_sq |-> ZeroParams(model)]
  /\ tr_log = <<>> /\ tr_hist = <<>> /\ fresh_grad = <<>>

NextCharTrain ==
  \/ TrainEpochBegin \/ TrainBatchBegin \/ ZeroGrad \/ TrainForward \/ TrainLoss
  \/ TrainBackward \/ TrainClip \/ TrainOptStep \/ TrainEpochEnd

SpecCharTrain == InitCharTrain /\ [][NextCharTrain]_vars

\* ------------------------------------------------------------ C20
\* The operations of one batch iteration, in the order the code runs them.
TrainOrder == <<"init_hidden", "zero_grad", "forward", "backward", "clip", "step">>

\* How many operations of its iteration the loop has run at each position.
DoneAt ==
  [zero_grad |-> 1, forward |-> 2, loss |-> 3, backward |-> 3, clip |-> 4, step |-> 5]

\* C20: within a batch iteration the loop clears the gradients, runs one
\* forward and one backward pass, clips and steps, in this order, and the
\* optimizer has stepped once for every completed iteration; after the
\* backward pass the gradients are those of this batch alone (nothing is left
\* from the batch before), and the gradients the optimizer steps with are
\* these scaled to a total norm of at most max_norm.
C20_StepAfterFreshClippedGradients ==
  tr_pc \notin {"idle"} =>
    /\ tr_log = SubSeq(TrainOrder, 1, Len(tr_log))
    /\ tr_pc \in DOMAIN DoneAt => Len(tr_log) = DoneAt[tr_pc]
    /\ (tr_pc = "batch" /\ batch_idx > 0) => tr_log = TrainOrder
    /\ opt.step = Len(tr_hist) - (IF tr_pc \in {"loss", "backward", "clip", "step"} THEN 1 ELSE 0)
    /\ tr_pc = "clip" =>
         /\ grads = fresh_grad
         /\ fresh_grad = Gradient(model, tr_inputs, tr_targets, tape)
    /\ tr_pc = "step" =>
         /\ grads = ZipParams(fresh_grad, fresh_grad,
                              LAMBDA a, b : MScale(ClipCoef(TotalNorm(fresh_grad)), a))
         /\ TotalNorm(grads) <= max_norm * Scale + Scale \div 100

\* C20 witness: in the second batch of an epoch the gradients exceed the
\* threshold, as they did in the first, and the optimizer is about to step
\* with the clipped ones.
C20_Witness ==
  /\ tr_pc = "step" /\ batch_idx = 1 /\ opt.step >= 1
  /\ TotalNorm(fresh_grad) > max_norm * Scale
  /\ TotalNorm(opt.exp_avg) > 0
  /\ grads # fresh_grad

\* ======================================================================
\* Named-entity tagger (Q5.ipynb): padding, the data loader, the lengths
\* train and evaluate hand to the model, and evaluate's lists of tags
\* ======================================================================
MaxSents == 3       \* sentences in a split
MaxSentLen == 3     \* words in a sentence
MaxNerBatch == 2    \* the loader's batch_size
NerWords == 5       \* word indices 1..NerWords; 0 is <pad>
tagset_size == 2    \* tag indices 0..tagset_size - 1

\* Parameter values of the model.
NerSeeds == {1, 2}

\* A sentence of n word indices.
Sentence(n, seed) == [i \in 1..n |-> 1 + ((seed + 2 * i) % NerWords)]

\* The sentences of a split, by their lengths.
Sentences(lens) == [i \in DOMAIN lens |-> Sentence(lens[i], i)]

\* The tag indices of a sentence's n labels; the labels of a split.
LabelList(n, seed) == [i \in 1..n |-> (seed + i) % tagset_size]
Labels(lens) == [i \in DOMAIN lens |-> LabelList(lens[i], i)]

\* The numbers of labels a split of sentences may come with: one label per
\* word, but for at most one sentence, which has a label less (as "John lives
\* in New York ." has in the notebook) or a label more.
LabelLens(lens) ==
  {lens} \cup {[lens EXCEPT ![i] = lens[i] + 1] : i \in DOMAIN lens}
         \cup {[lens EXCEPT ![i] = lens[i] - 1] : i \in {j \in DOMAIN lens : lens[j] > 1}}

\* tags = sorted(...); index_to_tag = {i: tag ...}
TagNames == <<"LOC", "O", "ORG", "PER">>
index_to_tag(i) == TagNames[i + 1]

\* max(len(seq) for seq in sequences)
LongestLen(sequences) ==
  CHOOSE m \in {Len(sequences[i]) : i \in DOMAIN sequences} :
    \A i \in DOMAIN sequences : Len(sequences[i]) <= m

\* pad_sequence(..., batch_first=True, padding_value): one row per sequence,
\* every row as long as the longest sequence.
pad_sequences(sequences, padding_value) ==
  [i \in DOMAIN sequences |->
     [j \in 1..LongestLen(sequences) |->
        IF j <= Len(sequences[i]) THEN sequences[i][j] ELSE padding_value]]

\* SimpleDataset(sentences, labels) keeps what it is given.
SimpleDataset(sentences, labels) == [sentences |-> sentences, labels |-> labels]

\* torch.utils.data.DataLoader(dataset, batch_size): no shuffle.
DataLoader(dataset, bsize) == [dataset |-> dataset, batch_size |-> bsize]

\* len(iterator)
LoaderLen(it) ==
  (Len(it.dataset.sentences) + it.batch_size - 1) \div it.batch_size

\* The dataset indices (1-based) of the rows in batch b of the loader: the
\* sequential sampler's next batch_size indices.
BatchRows(it, b) ==
  PySlice([i \in 1..Len(it.dataset.sentences) |-> i],
          b * it.batch_size, (b + 1) * it.batch_size)

\* The batch the loader yields: dataset[i] of each index, stacked.
LoaderBatch(it, b) ==
  [r \in DOMAIN BatchRows(it, b) |-> it.dataset.sentences[BatchRows(it, b)[r]]]
LoaderBatchLabels(it, b) ==
  [r \in DOMAIN BatchRows(it, b) |-> it.dataset.labels[BatchRows(it, b)[r]]]

\* [len(seq) for seq in iterator.dataset.sentences[batch_idx * batch_size :
\*  (batch_idx + 1) * batch_size]]: len of a row of the dataset's tensor.
BatchLengths(it, b) ==
  [r \in DOMAIN PySlice(it.dataset.sentences, b * it.batch_size, (b + 1) * it.batch_size) |->
     Len(PySlice(it.dataset.sentences, b * it.batch_size, (b + 1) * it.batch_size)[r])]

\* pack_padded_sequence accepts lengths from 1 to the width of the batch.
LengthsFit(x, lens) ==
  /\ Len(lens) = Len(x)
  /\ \A r \in DOMAIN x : lens[r] >= 1 /\ lens[r] <= Len(x[r])

\* pack_padded_sequence(embedded, lengths, batch_first=True): of row r the
\* first lengths[r] time steps reach the LSTM.  A time step is written as the
\* word index whose embedding it carries.
pack_padded_sequence(x, lens) == [r \in DOMAIN x |-> SubSeq(x[r], 1, lens[r])]

\* _, predicted_indices = torch.max(model(x, lengths), dim=2): pad_packed_sequence
\* gives every row as many time steps as the longest length of the batch, and
\* each step gets one of the tags, which one depending on the parameters w.
PredictedIndices(w, x, lens) ==
  [r \in DOMAIN x |->
     [p \in 1..LongestLen(pack_padded_sequence(x, lens)) |->
        (w + x[r][p] + p) % tagset_size]]

\* [... for idx in padded_labels[i] if idx.item() != -1]: the positions of a
\* row of labels that are kept, in order.
RealPositions(row) == SelectSeq([p \in DOMAIN row |-> p], LAMBDA p : row[p] # -1)

\* true_tags of a row of labels; pred_tags of a row of predicted indices,
\* predicted_indices[i][:len(true_tags)].
TrueTags(row) == [n \in DOMAIN RealPositions(row) |-> index_to_tag(row[RealPositions(row)[n]])]
PredTags(row, count) == [n \in DOMAIN PySlice(row, 0, count) |-> index_to_tag(row[n])]

\* The concatenation of the sequences F(1), ..., F(n).
RECURSIVE Concat(_, _)
Concat(seqs, n) == IF n = 0 THEN <<>> ELSE Concat(seqs, n - 1) \o seqs[n]

\* for batch_idx, (padded_sentences, padded_labels) in enumerate(iterator)
NerNextBatch ==
  /\ ner_pc = "next" /\ ner_batch_idx < LoaderLen(iterator)
  /\ padded_sentences' = LoaderBatch(iterator, ner_batch_idx)
  /\ padded_labels' = LoaderBatchLabels(iterator, ner_batch_idx)
  /\ ner_pc' = "lengths"
  /\ UNCHANGED <<nerData, nerLists, ner_batch_idx, lengths, packed_embedded,
                 predicted_indices, ner_hist>>
  /\ UNCHANGED outsideNer

\* lengths = torch.tensor([len(seq) for seq in iterator.dataset.sentences[...]])
NerLengths ==
  /\ ner_pc = "lengths"
  /\ lengths' = BatchLengths(iterator, ner_batch_idx)
  /\ ner_pc' = "model"
  /\ UNCHANGED <<nerData, nerLists, ner_batch_idx, padded_sentences, padded_labels,
                 packed_embedded, predicted_indices, ner_hist>>
  /\ UNCHANGED outsideNer

\* predictions = model(padded_sentences, lengths): BiLSTM_NER.forward packs
\* the embedded batch by the lengths and runs the LSTM on the packed steps;
\* the predictions have a tag score per row and time step.
NerModel ==
  /\ ner_pc = "model"
  /\ IF LengthsFit(padded_sentences, lengths)
     THEN /\ packed_embedded' = pack_padded_sequence(padded_sentences, lengths)
          /\ predicted_indices' = PredictedIndices(ner_weights, padded_sentences, lengths)
          /\ ner_hist' = Append(ner_hist,
               [batch_idx |-> ner_batch_idx,
                rows |-> BatchRows(iterator, ner_batch_idx),
                lengths |-> lengths,
                steps |-> packed_embedded'])
          /\ ner_pc' = "rest"
     ELSE /\ ner_pc' = "error"
          /\ UNCHANGED <<packed_embedded, predicted_indices, ner_hist>>
  /\ UNCHANGED <<nerData, nerLists, ner_batch_idx, padded_sentences, padded_labels,
                 lengths>>
  /\ UNCHANGED outsideNer

\* The rest of train's iteration: the loss of predictions.view(-1, tags)
\* against padded_labels.view(-1), which raises ValueError when the two differ
\* in their number of positions; backward; the optimizer's step, which leaves
\* the model with other parameters.
NerTrainRest ==
  /\ ner_pc = "rest" /\ ner_fn = "train"
  /\ IF Len(predicted_indices) * Len(predicted_indices[1])
          = Len(padded_labels) * Len(padded_labels[1])
     THEN /\ \E w \in NerSeeds : ner_weights' = w
          /\ ner_batch_idx' = ner_batch_idx + 1
          /\ ner_pc' = "next"
     ELSE /\ ner_pc' = "error"
          /\ UNCHANGED <<ner_weights, ner_batch_idx>>
  /\ UNCHANGED <<ner_fn, split_sentences, split_labels, iterator, nerLists,
                 padded_sentences, padded_labels, lengths, packed_embedded,
                 predicted_indices, ner_hist>>
  /\ UNCHANGED outsideNer

\* The true tags of every row of the batch, one after the other, and the
\* dataset row and position each came from; the same for the predicted tags.
BatchTrueTags(labels) ==
  Concat([r \in DOMAIN labels |-> TrueTags(labels[r])], Len(labels))
BatchPredTags(labels, predicted) ==
  Concat([r \in DOMAIN labels |-> PredTags(predicted[r], Len(TrueTags(labels[r])))],
         Len(labels))
BatchTrueAt(labels, rows) ==
  Concat([r \in DOMAIN labels |->
            [n \in DOMAIN RealPositions(labels[r]) |-> <<rows[r], RealPositions(labels[r])[n]>>]],
         Len(labels))
BatchPredAt(labels, predicted, rows) ==
  Concat([r \in DOMAIN labels |->
            [n \in DOMAIN PredTags(predicted[r], Len(TrueTags(labels[r]))) |-> <<rows[r], n>>]],
         Len(labels))

\* The rest of evaluate's iteration: for i in range(padded_labels.shape[0]),
\* all_labels.extend(true_tags) and all_predictions.extend(pred_tags).
NerCollect ==
  /\ ner_pc = "rest" /\ ner_fn = "evaluate"
  /\ \E rows \in {BatchRows(iterator, ner_batch_idx)} :
       /\ all_labels' = all_labels \o BatchTrueTags(padded_labels)
       /\ all_predictions' = all_predictions \o BatchPredTags(padded_labels, predicted_indices)
       /\ label_at' = label_at \o BatchTrueAt(padded_labels, rows)
       /\ prediction_at' = prediction_at \o BatchPredAt(padded_labels, predicted_indices, rows)
  /\ ner_batch_idx' = ner_batch_idx + 1
  /\ ner_pc' = "next"
  /\ UNCHANGED <<nerData, padded_sentences, padded_labels, lengths, packed_embedded,
                 predicted_indices, ner_hist>>
  /\ UNCHANGED outsideNer

\* The loader is exhausted: train returns the mean loss; evaluate prints
\* classification_report(all_labels, all_predictions), which raises ValueError
\* for two lists of different lengths.
NerReturn ==
  /\ ner_pc = "next" /\ ner_batch_idx >= LoaderLen(iterator)
  /\ ner_pc' = IF Len(all_labels) = Len(all_predictions) THEN "done" ELSE "error"
  /\ UNCHANGED <<nerData, nerLists, ner_batch_idx, padded_sentences, padded_labels,
                 lengths, packed_embedded, predicted_indices, ner_hist>>
  /\ UNCHANGED outsideNer

\* train(model, train_loader, ...) or evaluate(model, test_loader, ...) on a
\* loader built as the notebook builds it: the split's sentences and labels,
\* padded with 0 and with -1, in a SimpleDataset.
InitNer ==
  /\ RnnIdle /\ ModelIdle /\ BatchIdle /\ GenIdle /\ TrainIdle /\ TwoCallsIdle
  /\ ner_fn \in {"train", "evaluate"}
  /\ \E lens \in UNION {[1..n -> 1..MaxSentLen] : n \in 1..MaxSents} :
       /\ split_sentences = Sentences(lens)
       /\ \E lablens \in LabelLens(lens) : split_labels = Labels(lablens)
  /\ \E bsize \in 1..MaxNerBatch :
       iterator = DataLoader(SimpleDataset(pad_sequences(split_sentences, 0),
                                           pad_sequences(split_labels, -1)), bsize)
  /\ ner_weights \in NerSeeds
  /\ ner_pc = "next" /\ ner_batch_idx = 0
  /\ padded_sentences = <<>> /\ padded_labels = <<>> /\ lengths = <<>>
  /\ packed_embedded = <<>> /\ predicted_indices = <<>> /\ ner_hist = <<>>
  /\ all_labels = <<>> /\ all_predictions = <<>>
  /\ label_at = <<>> /\ prediction_at = <<>>

NextNer ==
  \/ NerNextBatch \/ NerLengths \/ NerModel \/ NerTrainRest \/ NerCollect
  \/ NerReturn

SpecNer == InitNer /\ [][NextNer]_vars

\* ------------------------------------------------------------ C18
\* The original (pre-padding) lengths of the sentences in a batch.
OriginalLengths(rows) == [r \in DOMAIN rows |-> Len(split_sentences[rows[r]])]

\* C18: in train and in evaluate, the lengths handed to the model for a
\* batch are the original lengths of exactly the sentences in that batch,
\* and the recurrence runs on no padded time step.
C18_LengthsAreOriginal ==
  \A i \in DOMAIN ner_hist :
    /\ ner_hist[i].lengths = OriginalLengths(ner_hist[i].rows)
    /\ \A r \in DOMAIN ner_hist[i].steps :
         ner_hist[i].steps[r] = split_sentences[ner_hist[i].rows[r]]

\* ------------------------------------------------------------ C22
\* In a row of padded labels, -1 occurs only after the real labels.
PaddingLast(row) == \A p, q \in DOMAIN row : (p < q /\ row[p] = -1) => row[q] = -1

\* C22: in evaluate, with the padding labels after the real ones in every
\* sequence, after any number of batches all_labels and all_predictions are
\* equally long, their entries at the same index come from the same position
\* of the same sequence, and no padded position of the labels or of the
\* sentences has entered either list.
C22_ListsAligned ==
  (ner_fn = "evaluate" /\ \A i \in DOMAIN iterator.dataset.labels :
                            PaddingLast(iterator.dataset.labels[i])) =>
    /\ Len(all_labels) = Len(all_predictions)
    /\ label_at = prediction_at
    /\ \A n \in DOMAIN label_at :
         label_at[n][2] <= Len(split_labels[label_at[n][1]])
    /\ \A n \in DOMAIN prediction_at :
         prediction_at[n][2] <= Len(split_sentences[prediction_at[n][1]])

\* ======================================================================
\* forward (Q1.ipynb) called with the same arguments under different values
\* of the module-level name hidden_size
\* ======================================================================
MaxCalls == 2

\* Values the name hidden_size may be bound to when forward is called.
HiddenSizes == 1..(hidden_size + 1)

\* hidden_states[t+1] = value: the value of shape (r, 1) is stored in a slot
\* of shape (n, 1) when r = n, broadcast when r = 1, and refused otherwise.
AssignFits(value, n) == Rows(value) = n \/ Rows(value) = 1
Broadcast(value, n) == [i \in 1..n |-> IF Rows(value) = 1 THEN value[1] ELSE value[i]]

\* The loop of forward from step tt on, on the hidden_states allocated
\* before it: np.dot raises ValueError for shapes that are not aligned.
RECURSIVE ForwardLoop(_, _, _, _, _)
ForwardLoop(xs, P, tt, hs, outs) ==
  IF ~ForwardMore(tt, Len(xs))
  THEN [raised |-> "none", outputs |-> outs, hidden_states |-> hs]
  ELSE IF \/ ~DotAligned(P.U, xs[tt + 1])
          \/ ~DotAligned(P.W, hs[tt + 1])
          \/ ~AssignFits(P.b, Rows(hs[tt + 2]))
          \/ ~DotAligned(P.V, hs[tt + 2])
       THEN [raised |-> "ValueError", outputs |-> <<>>, hidden_states |-> <<>>]
       ELSE CHOOSE r \in
              {ForwardLoop(xs, P, tt + 1, [hs EXCEPT ![tt + 2] = ho[1]], Append(outs, ho[2])) :
                 ho \in
                   {<<h, OutputStep(h, P.V, P.c)>> :
                      h \in {Broadcast(HiddenStep(xs[tt + 1], hs[tt + 1], P.U, P.W, P.b),
                                       Rows(hs[tt + 2]))}}} : TRUE

\* forward(inputs, U, W, V, b, c) when the module-level hidden_size is hsize:
\* hidden_states = np.zeros((T + 1, hidden_size, 1)), then the loop.
forward(xs, P, hsize) ==
  ForwardLoop(xs, P, 0, [i \in 1..(Len(xs) + 1) |-> ZerosMat(hsize, 1)], <<>>)

\* outputs, hidden_states = forward(inputs, U, W, V, b, c)
CallForward ==
  /\ fw_args # <<>> /\ Len(fw_calls) < MaxCalls
  /\ \E res \in {forward(fw_args.inputs, fw_args.params, fw_hidden_size)} :
       fw_calls' = Append(fw_calls, [hidden_size |-> fw_hidden_size, result |-> res])
  /\ UNCHANGED <<fw_args, fw_hidden_size>>
  /\ UNCHANGED outsideTwoCalls

\* hidden_size = n, in a cell run between two calls.
AssignHiddenSize ==
  /\ fw_args # <<>>
  /\ \E n \in HiddenSizes \ {fw_hidden_size} : fw_hidden_size' = n
  /\ UNCHANGED <<fw_args, fw_calls>>
  /\ UNCHANGED outsideTwoCalls

\* The notebook's parameters and any input sequence; hidden_size as the
\* notebook's first cell sets it.
InitTwoCalls ==
  /\ RnnIdle /\ ModelIdle /\ BatchIdle /\ GenIdle /\ TrainIdle /\ NerIdle
  /\ fw_args \in {[inputs |-> Inputs(n, s), params |-> InitParams(ps)] :
                    n \in 0..MaxT, s \in InputSeeds, ps \in ParamSeeds}
  /\ fw_hidden_size = hidden_size
  /\ fw_calls = <<>>

NextTwoCalls == CallForward \/ AssignHiddenSize

SpecTwoCalls == InitTwoCalls /\ [][NextTwoCalls]_vars

\* ------------------------------------------------------------ C23
\* C23: what forward returns is fixed by its arguments: any two calls with
\* the same inputs and the same five arrays give the same outputs and the same
\* hidden states, whatever the module-level hidden_size is at either call.
C23_ForwardDependsOnArgumentsOnly ==
  \A i, j \in DOMAIN fw_calls : fw_calls[i].result = fw_calls[j].result

\* ------------------------------------------------------------ C16
\* Either notebook's training: the NumPy engine's, or the character model's.
InitTraining == Init \/ InitCharTrain

NextTraining == Next \/ NextCharTrain

SpecTraining == InitTraining /\ [][NextTraining]_vars

\* C16: every forward pass of the NumPy engine has the zero vector as its
\* hidden state 0, and its first new hidden state is computed from that zero
\* vector whatever earlier passes left; in the character model's loop the
\* name hidden holds a new zero state when the gradients are cleared and when
\* the forward pass begins, and every forward pass of the loop was handed
\* the zero state.
C16_NoHiddenStateCarried ==
  /\ hidden_states # <<>> =>
       /\ hidden_states[1] = ZerosMat(hidden_size, 1)
       /\ (pc = "forward" /\ t >= 1) =>
            hidden_states[2] = HiddenStep(inputs[1], ZerosMat(hidden_size, 1),
                                          heap["U"], heap["W"], heap["b"])
  /\ tr_pc \in {"zero_grad", "forward"} => tr_hidden = init_hidden(Len(tr_inputs))
  /\ \A i \in 1..Len(tr_hist) : tr_hist[i].hidden_in = init_hidden(batch_size)

\* C16 witness: the first batch left a state that is not zero in the name
\* hidden, and the forward pass of the second batch was handed zeros.
C16_Witness ==
  /\ Len(tr_hist) = 2
  /\ tr_hist[2].batch = 1
  /\ tr_hist[1].hidden_out # init_hidden(batch_size)
  /\ tr_hist[2].hidden_in = init_hidden(batch_size)
  /\ tr_hist[2].hidden_out # tr_hist[1].hidden_out
====
